---------------------------- MODULE Spec2Model ----------------------------
(***************************************************************************)
(* Model of the MPRIS playback tracker of niandra: the per-player          *)
(* TrackState (src/track.rs) and the monitor's registry, event channel and *)
(* main loop (src/mpris/player.rs).                                        *)
(*                                                                         *)
(* Conventions.                                                            *)
(*  - Option<T>: None is <<>>, Some(x) is <<x>>.                           *)
(*  - Strings that the code inspects (bus names, URLs, list entries) are   *)
(*    sequences of fragments; contains / starts_with / strip_prefix are    *)
(*    computed on them fragment by fragment.                               *)
(*  - Instant and Duration are milliseconds; min_play_percent is an        *)
(*    integer number of hundredths (50 is 0.5).                            *)
(*  - Local::now() (the wall clock of start_timestamp) is read at          *)
(*    nanosecond resolution, so two reads never agree: it is the counter   *)
(*    wall, incremented by every read.                                     *)
(***************************************************************************)
EXTENDS Integers, Sequences, FiniteSets, TLC

\* ------------------------------------------------------------------ bounds
MaxTime  == 2000      \* the monotonic clock stops advancing here (ms)
TickMs   == 1000      \* granularity of the passage of time (ms)
MaxQueue == 2         \* events in the channel at once
MaxSignals == 3       \* D-Bus signals delivered in one run
MaxSeeks == 3         \* calls of on_seeked on one state
MaxSinkFailures == 1  \* inserts the database rejects in one run
MaxOthers == 2        \* times another task takes the registry lock
MaxCalls == 2         \* calls of add_player on one registry

\* ------------------------------------------------------- Option and strings
None == <<>>
Some(x) == <<x>>
IsSome(o) == o /= <<>>
Unwrap(o) == o[1]

starts_with(s, p) ==
    /\ Len(s) >= Len(p)
    /\ SubSeq(s, 1, Len(p)) = p

contains(s, p) ==
    \E i \in 1..(Len(s) + 1) :
        /\ i + Len(p) - 1 <= Len(s)
        /\ SubSeq(s, i, i + Len(p) - 1) = p

strip_prefix_or(s, p) ==
    IF starts_with(s, p) THEN SubSeq(s, Len(p) + 1, Len(s)) ELSE s

MPRIS_PREFIX == <<"org.mpris.MediaPlayer2.">>

\* ------------------------------------------------------------ track.rs
INTRO_START_THRESHOLD_US == 5000000
INTRO_SKIP_THRESHOLD_US == 15000000
FOUR_MINUTES_S == 240

DefaultTrack == [title |-> None, duration_us |-> None, file_path |-> None]

NewTrackState ==
    [track |-> DefaultTrack,
     start_time |-> None,
     start_timestamp |-> None,
     is_playing |-> FALSE,
     is_local |-> FALSE,
     player_name |-> None,
     seek_count |-> 0,
     intro_skipped |-> FALSE,
     seek_forward_ms |-> 0,
     seek_backward_ms |-> 0,
     last_position_us |-> 0]

\* start.elapsed() at the instant t, zero when no episode began
played_duration(state, t) ==
    IF IsSome(state.start_time) THEN t - Unwrap(state.start_time) ELSE 0

played_ms(state, t) == played_duration(state, t)

\* duration_seconds * min_percent <= played_seconds_f64, in exact arithmetic
\* on milliseconds and hundredths, split so that no product leaves 32 bits
PercentReached(played, duration_us, pct) ==
    played * 100 >=
        (duration_us \div 1000) * pct + (((duration_us % 1000) * pct + 999) \div 1000)

\* mutant of should_log: the minimum must be exceeded, not reached
should_log_min_exclusive(state, t, min_seconds, min_percent) ==
    IF ~IsSome(state.track.title) \/ ~IsSome(state.start_time)
    THEN FALSE
    ELSE LET played == played_duration(state, t)
             played_seconds == played \div 1000
         IN  IF played_seconds <= min_seconds
             THEN FALSE
             ELSE IF ~IsSome(state.track.duration_us)
             THEN TRUE
             ELSE IF Unwrap(state.track.duration_us) <= 0
             THEN TRUE
             ELSE \/ PercentReached(played, Unwrap(state.track.duration_us), min_percent)
                  \/ played_seconds >= FOUR_MINUTES_S

\* mutant of should_log: four minutes must be exceeded, not reached
should_log_four_minutes_exclusive(state, t, min_seconds, min_percent) ==
    IF ~IsSome(state.track.title) \/ ~IsSome(state.start_time)
    THEN FALSE
    ELSE LET played == played_duration(state, t)
             played_seconds == played \div 1000
         IN  IF played_seconds < min_seconds
             THEN FALSE
             ELSE IF ~IsSome(state.track.duration_us)
             THEN TRUE
             ELSE IF Unwrap(state.track.duration_us) <= 0
             THEN TRUE
             ELSE \/ PercentReached(played, Unwrap(state.track.duration_us), min_percent)
                  \/ played_seconds > FOUR_MINUTES_S

should_log(state, t, min_seconds, min_percent) ==
    IF ~IsSome(state.track.title) \/ ~IsSome(state.start_time)
    THEN FALSE
    ELSE LET played == played_duration(state, t)
             played_seconds == played \div 1000
         IN  IF played_seconds < min_seconds
             THEN FALSE
             ELSE IF ~IsSome(state.track.duration_us)
             THEN TRUE
             ELSE IF Unwrap(state.track.duration_us) <= 0
             THEN TRUE
             ELSE \/ PercentReached(played, Unwrap(state.track.duration_us), min_percent)
                  \/ played_seconds >= FOUR_MINUTES_S

\* mutant of on_seeked: a seek that starts at exactly 5 s counts as from the intro
on_seeked_start_inclusive(state, new_position_us) ==
    LET delta_us == new_position_us - state.last_position_us
    IN  [state EXCEPT
            !.seek_count = @ + 1,
            !.seek_forward_ms = IF delta_us > 0 THEN @ + (delta_us \div 1000) ELSE @,
            !.seek_backward_ms = IF delta_us > 0 THEN @ ELSE @ + ((0 - delta_us) \div 1000),
            !.intro_skipped =
                IF /\ state.last_position_us <= INTRO_START_THRESHOLD_US
                   /\ new_position_us > INTRO_SKIP_THRESHOLD_US
                THEN TRUE ELSE @,
            !.last_position_us = new_position_us]

\* mutant of on_seeked: a seek to the position already recorded is dropped
on_seeked_drops_repeat(state, new_position_us) ==
    LET delta_us == new_position_us - state.last_position_us
    IN  IF delta_us = 0
        THEN state
        ELSE [state EXCEPT
                !.seek_count = @ + 1,
                !.seek_forward_ms = IF delta_us > 0 THEN @ + (delta_us \div 1000) ELSE @,
                !.seek_backward_ms = IF delta_us > 0 THEN @ ELSE @ + ((0 - delta_us) \div 1000),
                !.intro_skipped =
                    IF /\ state.last_position_us < INTRO_START_THRESHOLD_US
                       /\ new_position_us > INTRO_SKIP_THRESHOLD_US
                    THEN TRUE ELSE @,
                !.last_position_us = new_position_us]

\* mutant of on_seeked: the distance is measured from the start of the track
on_seeked_from_zero(state, new_position_us) ==
    LET delta_us == new_position_us
    IN  [state EXCEPT
            !.seek_count = @ + 1,
            !.seek_forward_ms = IF delta_us > 0 THEN @ + (delta_us \div 1000) ELSE @,
            !.seek_backward_ms = IF delta_us > 0 THEN @ ELSE @ + ((0 - delta_us) \div 1000),
            !.intro_skipped =
                IF /\ state.last_position_us < INTRO_START_THRESHOLD_US
                   /\ new_position_us > INTRO_SKIP_THRESHOLD_US
                THEN TRUE ELSE @,
            !.last_position_us = new_position_us]

on_seeked(state, new_position_us) ==
    LET delta_us == new_position_us - state.last_position_us
    IN  [state EXCEPT
            !.seek_count = @ + 1,
            !.seek_forward_ms = IF delta_us > 0 THEN @ + (delta_us \div 1000) ELSE @,
            !.seek_backward_ms = IF delta_us > 0 THEN @ ELSE @ + ((0 - delta_us) \div 1000),
            !.intro_skipped =
                IF /\ state.last_position_us < INTRO_START_THRESHOLD_US
                   /\ new_position_us > INTRO_SKIP_THRESHOLD_US
                THEN TRUE ELSE @,
            !.last_position_us = new_position_us]

\* mutant of start_playing: the flag is set and the clock is not
start_playing_without_clock(state, t, w) ==
    [state EXCEPT !.is_playing = TRUE]

\* mutant of start_playing: a clock that is already set keeps running
start_playing_keeps_clock(state, t, w) ==
    [state EXCEPT !.is_playing = TRUE,
                  !.start_time = IF IsSome(@) THEN @ ELSE Some(t),
                  !.start_timestamp = IF IsSome(@) THEN @ ELSE Some(w)]

start_playing(state, t, w) ==
    [state EXCEPT !.is_playing = TRUE,
                  !.start_time = Some(t),
                  !.start_timestamp = Some(w)]

\* mutant of stop_playing: the seek counters go back to zero with the flag
stop_playing_resets_seeks(state) ==
    [state EXCEPT !.is_playing = FALSE,
                  !.seek_count = 0,
                  !.seek_forward_ms = 0,
                  !.seek_backward_ms = 0,
                  !.intro_skipped = FALSE,
                  !.last_position_us = 0]

\* mutant of stop_playing: the flag is left set
stop_playing_keeps_flag(state) == state

stop_playing(state) == [state EXCEPT !.is_playing = FALSE]

is_local_source(track, local_players, player_name) ==
    IF /\ IsSome(player_name)
       /\ \E p \in local_players :
              contains(strip_prefix_or(Unwrap(player_name), MPRIS_PREFIX), p)
    THEN TRUE
    ELSE IF IsSome(track.file_path)
    THEN \/ starts_with(Unwrap(track.file_path), <<"file://">>)
         \/ starts_with(Unwrap(track.file_path), <<"/">>)
    ELSE FALSE

\* ------------------------------------------------------ mpris/metadata.rs
\* A metadata map is a record whose fields are the MPRIS keys present:
\* title (xesam:title), length (mpris:length), url (xesam:url).
parse_metadata(metadata) ==
    [title |-> IF "title" \in DOMAIN metadata THEN Some(metadata.title) ELSE None,
     duration_us |-> IF "length" \in DOMAIN metadata THEN Some(metadata.length) ELSE None,
     file_path |-> IF "url" \in DOMAIN metadata THEN Some(metadata.url) ELSE None]

\* --------------------------------------------------------- the environment
\* Well-known names, unique connection names, and what players publish.
W1 == MPRIS_PREFIX \o <<"io.bassi.Amberol">>
W2 == MPRIS_PREFIX \o <<"spotify">>
WellKnown == {W1, W2}
U1 == <<":1.", "10">>
U2 == <<":1.", "11">>
Unique == {U1, U2}

MetaA == [title |-> "A", length |-> 2000000, url |-> <<"file://", "a.flac">>]
MetaB == [title |-> "B", url |-> <<"https://", "b">>]
MetaNoTitle == [url |-> <<"/", "c.ogg">>]
Metas == {MetaA, MetaB, MetaNoTitle}

\* The Results of the D-Bus calls of one admission: get_name_owner failed, or
\* it answered and Metadata / PlaybackStatus each answered or failed.
AddFailed == [resolve_ok |-> FALSE, metadata |-> None, status |-> None]
AddAnswer(metadata, status) ==
    [resolve_ok |-> TRUE, metadata |-> metadata, status |-> status]

StatusChange(st) == [status |-> Some(st), metadata |-> None]
MetadataChange(m) == [status |-> None, metadata |-> Some(m)]

\* The signals of a run: an MPRIS player that plays local files and seeks,
\* next to a streaming player.
CoreEnv ==
    [changes |-> [u \in Unique |->
        IF u = U1
        THEN {StatusChange("Playing"), StatusChange("Paused"),
              MetadataChange(MetaA), MetadataChange(MetaB), MetadataChange(MetaNoTitle)}
        ELSE {StatusChange("Stopped")}],
     positions |-> [u \in Unique |-> IF u = U1 THEN {1000000, 20000000} ELSE {}],
     answers |-> [w \in WellKnown |->
        IF w = W1
        THEN {AddFailed, AddAnswer(None, None), AddAnswer(Some(MetaA), Some("Playing")),
              AddAnswer(Some(MetaA), Some("Paused"))}
        ELSE {AddFailed, AddAnswer(Some(MetaB), Some("Playing"))}],
     db_may_fail |-> FALSE]

\* the same players, and a database whose inserts may return an error
FailingDbEnv == [CoreEnv EXCEPT !.db_may_fail = TRUE]

\* the same players, where the local one also sends PropertiesChanged
\* messages that carry PlaybackStatus and Metadata together
StatusAndMetadata(st, m) == [status |-> Some(st), metadata |-> Some(m)]

CombinedEnv ==
    [CoreEnv EXCEPT !.changes[U1] =
        {StatusChange("Playing"), MetadataChange(MetaA),
         StatusAndMetadata("Paused", MetaB), StatusAndMetadata("Stopped", MetaA),
         StatusAndMetadata("Playing", MetaB)}]

\* TrackingConfig and PlayerConfig values the runs are started with
Configs ==
    { [min_play_seconds |-> 1, min_play_percent |-> 50, local_only |-> TRUE,
       track_seeks |-> TRUE, idle_timeout_seconds |-> 1,
       whitelist |-> {}, blacklist |-> {},
       local_only_players |-> {<<"io.bassi.Amberol">>}],
      [min_play_seconds |-> 0, min_play_percent |-> 0, local_only |-> FALSE,
       track_seeks |-> TRUE, idle_timeout_seconds |-> 0,
       whitelist |-> {}, blacklist |-> {},
       local_only_players |-> {}],
      [min_play_seconds |-> 1, min_play_percent |-> 100, local_only |-> FALSE,
       track_seeks |-> FALSE, idle_timeout_seconds |-> 1,
       whitelist |-> {<<"io.bassi.Amberol">>, <<"spotify">>},
       blacklist |-> {<<"spotify">>},
       local_only_players |-> {<<"io.bassi.Amberol">>}] }

\* the connection each player process owns its name with
ConnectionOf(w) == IF w = W1 THEN U1 ELSE U2

VARIABLES
    cfg,              \* player_config and tracking_config
    env,              \* what the players on the bus may send in this run
    probe,            \* arguments and result of a call of should_log
    owner,            \* the bus: well-known name -> Option<unique name>
    tracked_players,  \* unique name -> TrackState
    bus_name_map,     \* unique name -> well-known name
    running,          \* the stop flag (true until stop())
    idle_since,       \* Option<Instant>
    now,              \* the monotonic clock (ms)
    wall,             \* the wall clock (reads so far)
    queue,            \* the mpsc channel of MprisEvent
    sink,             \* the calls of db.log_play that returned Ok, in order
    lost,             \* the calls of db.log_play that returned Err, in order
    pc,               \* position of run()
    exit_reason,      \* which break left the main loop
    sleep_start,      \* when the current select! began to sleep
    nsignals,         \* D-Bus signals delivered so far
    stream_open       \* the MessageStream still yields messages

vars == <<cfg, stream_open, env, probe, owner, tracked_players, bus_name_map, running, idle_since,
          now, wall, queue, sink, lost, pc, exit_reason, sleep_start, nsignals>>

\* ------------------------------------------------------------ HashMap
MapInsert(m, k, v) == [x \in (DOMAIN m) \cup {k} |-> IF x = k THEN v ELSE m[x]]
MapRemove(m, k) == [x \in (DOMAIN m) \ {k} |-> m[x]]
EmptyMap == [x \in {} |-> 0]

\* ------------------------------------------------------ mpris/player.rs
\* mutant of should_track_player: the whitelist is consulted first
should_track_player_allow_first(name) ==
    LET player_id == strip_prefix_or(name, MPRIS_PREFIX)
    IN  IF cfg.whitelist /= {} /\ \E p \in cfg.whitelist : contains(player_id, p)
        THEN TRUE
        ELSE IF \E p \in cfg.blacklist : contains(player_id, p)
        THEN FALSE
        ELSE cfg.whitelist = {}

should_track_player(name) ==
    LET player_id == strip_prefix_or(name, MPRIS_PREFIX)
    IN  IF \E p \in cfg.blacklist : contains(player_id, p)
        THEN FALSE
        ELSE IF cfg.whitelist = {}
        THEN TRUE
        ELSE \E p \in cfg.whitelist : contains(player_id, p)

\* What log_play hands to the sink: the state it was given, for the registry
\* key it was kept under, with the played_ms that insert_play reads at t.
PlayRecord(key, state, t) ==
    [player |-> key, state |-> state, played_ms |-> played_ms(state, t)]

\* log_play: the log after the call
log_play(log, key, state, t) ==
    IF ~IsSome(state.track.title)
    THEN log
    ELSE Append(log, PlayRecord(key, state, t))

\* what db.log_play may return: Ok, or Err while the run has failures left
DbAnswers ==
    IF env.db_may_fail /\ Len(lost) < MaxSinkFailures THEN BOOLEAN ELSE {TRUE}

\* mutant of db_log_play: after an error the insert is tried again, and stored
db_log_play_retries(logged, key, state, t) ==
    \E ok \in DbAnswers :
        /\ sink' = IF logged THEN log_play(sink, key, state, t) ELSE sink
        /\ lost' = IF logged /\ ~ok THEN log_play(lost, key, state, t) ELSE lost

\* log_play, lines 695-697, where a handler calls it when logged holds: the
\* record is stored, or the error is logged and the record is gone
db_log_play(logged, key, state, t) ==
    \E ok \in DbAnswers :
        /\ sink' = IF logged /\ ok THEN log_play(sink, key, state, t) ELSE sink
        /\ lost' = IF logged /\ ~ok THEN log_play(lost, key, state, t) ELSE lost

\* the sets of players whose insert fails during finalize()
DbFailures(keys) ==
    IF env.db_may_fail
    THEN {F \in SUBSET keys : Len(lost) + Cardinality(F) <= MaxSinkFailures}
    ELSE {{}}

\* the three conjuncts every handler but remove_player tests
Qualifies(state, t) ==
    /\ state.is_playing
    /\ should_log(state, t, cfg.min_play_seconds, cfg.min_play_percent)
    /\ (~cfg.local_only \/ state.is_local)

\* the two conjuncts remove_player tests
QualifiesOnRemoval(state, t) ==
    /\ state.is_playing
    /\ should_log(state, t, cfg.min_play_seconds, cfg.min_play_percent)

\* Time that log_play may take before insert_play reads played_ms
\* (context capture, the database mutex).
LogDelays == {0} \cup (IF now + TickMs <= MaxTime THEN {TickMs} ELSE {})

\* mutant of add_player: the unique-to-well-known entry is not stored
add_player_without_name_map(reg, well_known_name, resolved, metadata, status) ==
    IF ~IsSome(resolved)
    THEN [reg EXCEPT !.ok = FALSE]
    ELSE IF Unwrap(resolved) \in DOMAIN reg.players
    THEN reg
    ELSE LET s0 == [NewTrackState EXCEPT
                        !.player_name = Some(strip_prefix_or(well_known_name, MPRIS_PREFIX))]
             s1 == IF IsSome(metadata)
                   THEN LET track == parse_metadata(Unwrap(metadata))
                        IN  [s0 EXCEPT !.track = track,
                                       !.is_local = is_local_source(track,
                                           cfg.local_only_players, s0.player_name)]
                   ELSE s0
             playing == status = Some("Playing")
             s2 == IF playing THEN start_playing(s1, now, reg.wall) ELSE s1
         IN  [players |-> MapInsert(reg.players, Unwrap(resolved), s2),
              names |-> reg.names,
              idle |-> None,
              wall |-> IF playing THEN reg.wall + 1 ELSE reg.wall,
              ok |-> reg.ok]

\* mutant of add_player: a key already in the registry gets a fresh state
add_player_replaces_known(reg, well_known_name, resolved, metadata, status) ==
    IF ~IsSome(resolved)
    THEN [reg EXCEPT !.ok = FALSE]
    ELSE LET s0 == [NewTrackState EXCEPT
                        !.player_name = Some(strip_prefix_or(well_known_name, MPRIS_PREFIX))]
             s1 == IF IsSome(metadata)
                   THEN LET track == parse_metadata(Unwrap(metadata))
                        IN  [s0 EXCEPT !.track = track,
                                       !.is_local = is_local_source(track,
                                           cfg.local_only_players, s0.player_name)]
                   ELSE s0
             playing == status = Some("Playing")
             s2 == IF playing THEN start_playing(s1, now, reg.wall) ELSE s1
         IN  [players |-> MapInsert(reg.players, Unwrap(resolved), s2),
              names |-> MapInsert(reg.names, Unwrap(resolved), well_known_name),
              idle |-> None,
              wall |-> IF playing THEN reg.wall + 1 ELSE reg.wall,
              ok |-> reg.ok]

\* mutant of add_player: the idle timer is not cancelled
add_player_keeps_idle_timer(reg, well_known_name, resolved, metadata, status) ==
    IF ~IsSome(resolved)
    THEN [reg EXCEPT !.ok = FALSE]
    ELSE IF Unwrap(resolved) \in DOMAIN reg.players
    THEN reg
    ELSE LET s0 == [NewTrackState EXCEPT
                        !.player_name = Some(strip_prefix_or(well_known_name, MPRIS_PREFIX))]
             s1 == IF IsSome(metadata)
                   THEN LET track == parse_metadata(Unwrap(metadata))
                        IN  [s0 EXCEPT !.track = track,
                                       !.is_local = is_local_source(track,
                                           cfg.local_only_players, s0.player_name)]
                   ELSE s0
             playing == status = Some("Playing")
             s2 == IF playing THEN start_playing(s1, now, reg.wall) ELSE s1
         IN  [players |-> MapInsert(reg.players, Unwrap(resolved), s2),
              names |-> MapInsert(reg.names, Unwrap(resolved), well_known_name),
              idle |-> reg.idle,
              wall |-> IF playing THEN reg.wall + 1 ELSE reg.wall,
              ok |-> reg.ok]

\* add_player on the registry value reg = [players, names, idle, wall, ok];
\* resolved, metadata, status are the Results of the three D-Bus calls.
add_player(reg, well_known_name, resolved, metadata, status) ==
    IF ~IsSome(resolved)
    THEN [reg EXCEPT !.ok = FALSE]
    ELSE IF Unwrap(resolved) \in DOMAIN reg.players
    THEN reg
    ELSE LET s0 == [NewTrackState EXCEPT
                        !.player_name = Some(strip_prefix_or(well_known_name, MPRIS_PREFIX))]
             s1 == IF IsSome(metadata)
                   THEN LET track == parse_metadata(Unwrap(metadata))
                        IN  [s0 EXCEPT !.track = track,
                                       !.is_local = is_local_source(track,
                                           cfg.local_only_players, s0.player_name)]
                   ELSE s0
             playing == status = Some("Playing")
             s2 == IF playing THEN start_playing(s1, now, reg.wall) ELSE s1
         IN  [players |-> MapInsert(reg.players, Unwrap(resolved), s2),
              names |-> MapInsert(reg.names, Unwrap(resolved), well_known_name),
              idle |-> None,
              wall |-> IF playing THEN reg.wall + 1 ELSE reg.wall,
              ok |-> reg.ok]

Registry == [players |-> tracked_players, names |-> bus_name_map,
             idle |-> idle_since, wall |-> wall, ok |-> TRUE]

Resolved(well_known_name, ans) ==
    IF ans.resolve_ok THEN owner[well_known_name] ELSE None

Perms(S) ==
    {s \in [1..Cardinality(S) -> S] : \A x \in S : \E i \in DOMAIN s : s[i] = x}

PERIODIC_WAKE_MS == 1000

RECURSIVE discover_players(_, _, _)
discover_players(reg, names, answers) ==
    IF names = <<>>
    THEN reg
    ELSE LET name == Head(names)
             r == add_player(reg, name, Resolved(name, answers[name]),
                             answers[name].metadata, answers[name].status)
         IN  IF ~r.ok THEN r ELSE discover_players(r, Tail(names), answers)

\* ------------------------------------------------------------------ Init
NoProbe == [state |-> NewTrackState, t |-> 0, min_seconds |-> 0,
            min_percent |-> 0, result |-> None]

InitialOwners ==
    { [w \in WellKnown |-> None],
      [w \in WellKnown |-> IF w = W1 THEN Some(ConnectionOf(w)) ELSE None] }

Init ==
    /\ cfg \in Configs
    /\ env = CoreEnv
    /\ probe = NoProbe
    /\ owner \in InitialOwners
    /\ tracked_players = EmptyMap
    /\ bus_name_map = EmptyMap
    /\ running = TRUE
    /\ idle_since = None
    /\ now = 0
    /\ wall = 0
    /\ queue = <<>>
    /\ sink = <<>>
    /\ lost = <<>>
    /\ pc = "discover"
    /\ exit_reason = "none"
    /\ sleep_start = 0
    /\ nsignals = 0
    /\ stream_open = TRUE

\* a run against a database whose inserts may fail
InitFailingDb ==
    /\ cfg \in Configs
    /\ env = FailingDbEnv
    /\ probe = NoProbe
    /\ owner \in InitialOwners
    /\ tracked_players = EmptyMap
    /\ bus_name_map = EmptyMap
    /\ running = TRUE
    /\ idle_since = None
    /\ now = 0
    /\ wall = 0
    /\ queue = <<>>
    /\ sink = <<>>
    /\ lost = <<>>
    /\ pc = "discover"
    /\ exit_reason = "none"
    /\ sleep_start = 0
    /\ nsignals = 0
    /\ stream_open = TRUE

\* a run with players that send PlaybackStatus and Metadata in one message
InitCombined ==
    /\ cfg \in Configs
    /\ env = CombinedEnv
    /\ probe = NoProbe
    /\ owner \in InitialOwners
    /\ tracked_players = EmptyMap
    /\ bus_name_map = EmptyMap
    /\ running = TRUE
    /\ idle_since = None
    /\ now = 0
    /\ wall = 0
    /\ queue = <<>>
    /\ sink = <<>>
    /\ lost = <<>>
    /\ pc = "discover"
    /\ exit_reason = "none"
    /\ sleep_start = 0
    /\ nsignals = 0
    /\ stream_open = TRUE

\* ------------------------------------------------------------------ run()
\* The head of the loop, lines 126-140, as run() reaches it at the end of
\* discovery, of a handler or of the periodic wake: it reads the stop flag,
\* the idle timer and the clock as that step leaves them, and either breaks
\* or enters select! with a fresh one-second sleep.
\* mutant of LoopHead: the timer is compared whatever idle_timeout_seconds is
LoopHead_without_zero_guard ==
    IF ~running'
    THEN /\ pc' = "finalize"
         /\ exit_reason' = "stop"
         /\ sleep_start' = 0
    ELSE IF /\ IsSome(idle_since')
            /\ now' - Unwrap(idle_since') >= cfg.idle_timeout_seconds * 1000
    THEN /\ pc' = "finalize"
         /\ exit_reason' = "idle"
         /\ sleep_start' = 0
    ELSE /\ pc' = "select"
         /\ exit_reason' = exit_reason
         /\ sleep_start' = now'

LoopHead ==
    IF ~running'
    THEN /\ pc' = "finalize"
         /\ exit_reason' = "stop"
         /\ sleep_start' = 0
    ELSE IF /\ cfg.idle_timeout_seconds > 0
            /\ IsSome(idle_since')
            /\ now' - Unwrap(idle_since') >= cfg.idle_timeout_seconds * 1000
    THEN /\ pc' = "finalize"
         /\ exit_reason' = "idle"
         /\ sleep_start' = 0
    ELSE /\ pc' = "select"
         /\ exit_reason' = exit_reason
         /\ sleep_start' = now'

\* run(), lines 89-98: discovery, then the idle timer if nobody was found
Discover ==
    /\ pc = "discover"
    /\ LET names == {w \in WellKnown :
                        /\ IsSome(owner[w])
                        /\ starts_with(w, MPRIS_PREFIX)
                        /\ should_track_player(w)}
       IN  \E order \in Perms(names) :
           \E answers \in {a \in [names -> UNION {env.answers[w] : w \in names}] :
                              \A w \in names : a[w] \in env.answers[w]} :
             LET r == discover_players(Registry, order, answers)
             IN  /\ tracked_players' = r.players
                 /\ bus_name_map' = r.names
                 /\ wall' = r.wall
                 /\ idle_since' = IF r.ok /\ DOMAIN r.players = {} THEN Some(now)
                                  ELSE r.idle
                 /\ UNCHANGED <<cfg, stream_open, env, probe, owner, running, now, queue, sink, lost, nsignals>>
                 /\ IF r.ok
                    THEN LoopHead
                    ELSE /\ pc' = "failed"
                         /\ UNCHANGED <<exit_reason, sleep_start>>


\* the sleep branch of select!, line 147; a clock that has reached MaxTime
\* no longer delays the timer
Wake ==
    /\ pc = "select"
    /\ queue = <<>>
    /\ \/ now - sleep_start >= PERIODIC_WAKE_MS
       \/ now + TickMs > MaxTime
    /\ UNCHANGED <<cfg, stream_open, env, probe, owner, tracked_players, bus_name_map, running,
                   idle_since, now, wall, queue, sink, lost, nsignals>>
    /\ LoopHead

\* stop(), line 163
Stop ==
    /\ pc \in {"discover", "select"}
    /\ running
    /\ running' = FALSE
    /\ UNCHANGED <<cfg, stream_open, env, probe, owner, tracked_players, bus_name_map, idle_since, now,
                   wall, queue, sink, lost, pc, exit_reason, sleep_start, nsignals>>

\* time passes while the loop waits in select! with nothing to receive
Tick ==
    /\ pc = "select"
    /\ queue = <<>>
    /\ now + TickMs <= MaxTime
    /\ now' = now + TickMs
    /\ UNCHANGED <<cfg, stream_open, env, probe, owner, tracked_players, bus_name_map, running,
                   idle_since, wall, queue, sink, lost, pc, exit_reason, sleep_start,
                   nsignals>>

\* ------------------------------------------------------- handle_event
Dequeue(type) ==
    /\ pc = "select"
    /\ queue /= <<>>
    /\ Head(queue).type = type
    /\ queue' = Tail(queue)

HandlePlayerAppeared ==
    /\ Dequeue("PlayerAppeared")
    /\ LET player == Head(queue).player
       IN  IF should_track_player(player)
           THEN \E ans \in env.answers[player] :
                  LET r == add_player(Registry, player, Resolved(player, ans),
                                      ans.metadata, ans.status)
                  IN  /\ tracked_players' = r.players
                      /\ bus_name_map' = r.names
                      /\ idle_since' = r.idle
                      /\ wall' = r.wall
           ELSE UNCHANGED <<tracked_players, bus_name_map, idle_since, wall>>
    /\ UNCHANGED <<cfg, stream_open, env, probe, owner, running, now, sink, lost, nsignals>>
    /\ LoopHead

\* mutant of remove_player: the entry of bus_name_map is left behind and the
\* idle timer is not started
remove_player_forgets_cleanup(well_known_name) ==
    LET matches == {k \in DOMAIN bus_name_map : bus_name_map[k] = well_known_name}
    IN  IF matches = {}
        THEN UNCHANGED <<tracked_players, bus_name_map, idle_since, now, sink, lost>>
        ELSE \E unique_name \in matches, d \in LogDelays :
               LET present == unique_name \in DOMAIN tracked_players
                   logged == present /\ QualifiesOnRemoval(tracked_players[unique_name], now)
                   t == IF logged THEN now + d ELSE now
               IN  /\ tracked_players' = MapRemove(tracked_players, unique_name)
                   /\ db_log_play(logged, unique_name, tracked_players[unique_name], t)
                   /\ now' = t
                   /\ UNCHANGED <<bus_name_map, idle_since>>

\* mutant of remove_player: the idle timer is armed after every removal
remove_player_always_arms_timer(well_known_name) ==
    LET matches == {k \in DOMAIN bus_name_map : bus_name_map[k] = well_known_name}
    IN  IF matches = {}
        THEN UNCHANGED <<tracked_players, bus_name_map, idle_since, now, sink, lost>>
        ELSE \E unique_name \in matches, d \in LogDelays :
               LET present == unique_name \in DOMAIN tracked_players
                   logged == present /\ QualifiesOnRemoval(tracked_players[unique_name], now)
                   t == IF logged THEN now + d ELSE now
               IN  /\ tracked_players' = MapRemove(tracked_players, unique_name)
                   /\ db_log_play(logged, unique_name, tracked_players[unique_name], t)
                   /\ bus_name_map' = MapRemove(bus_name_map, unique_name)
                   /\ now' = t
                   /\ idle_since' = Some(t)

\* remove_player, lines 270-310
remove_player(well_known_name) ==
    LET matches == {k \in DOMAIN bus_name_map : bus_name_map[k] = well_known_name}
    IN  IF matches = {}
        THEN UNCHANGED <<tracked_players, bus_name_map, idle_since, now, sink, lost>>
        ELSE \E unique_name \in matches, d \in LogDelays :
               LET present == unique_name \in DOMAIN tracked_players
                   logged == present /\ QualifiesOnRemoval(tracked_players[unique_name], now)
                   t == IF logged THEN now + d ELSE now
               IN  /\ tracked_players' = MapRemove(tracked_players, unique_name)
                   /\ db_log_play(logged, unique_name, tracked_players[unique_name], t)
                   /\ bus_name_map' = MapRemove(bus_name_map, unique_name)
                   /\ now' = t
                   /\ idle_since' = IF DOMAIN tracked_players' = {} THEN Some(t)
                                    ELSE idle_since

HandlePlayerDisappeared ==
    /\ Dequeue("PlayerDisappeared")
    /\ remove_player(Head(queue).player)
    /\ UNCHANGED <<cfg, stream_open, env, probe, owner, running, wall, nsignals>>
    /\ LoopHead

\* mutant of HandleTrackChanged: the local_only gate reads the incoming flag
HandleTrackChanged_gates_on_incoming ==
    /\ Dequeue("TrackChanged")
    /\ LET ev == Head(queue)
           player == ev.player
       IN  IF player \in DOMAIN tracked_players
           THEN \E d \in LogDelays :
                  LET state == tracked_players[player]
                      logged == Qualifies([state EXCEPT !.is_local = ev.is_local], now)
                      s1 == [state EXCEPT !.track = ev.track,
                                          !.is_local = ev.is_local,
                                          !.seek_count = 0,
                                          !.intro_skipped = FALSE,
                                          !.seek_forward_ms = 0,
                                          !.seek_backward_ms = 0,
                                          !.last_position_us = 0]
                      s2 == IF s1.is_playing THEN start_playing(s1, now, wall) ELSE s1
                      t == IF logged THEN now + d ELSE now
                  IN  /\ tracked_players' = [tracked_players EXCEPT ![player] = s2]
                      /\ wall' = IF s1.is_playing THEN wall + 1 ELSE wall
                      /\ db_log_play(logged, player, state, t)
                      /\ now' = t
           ELSE UNCHANGED <<tracked_players, wall, sink, lost, now>>
    /\ UNCHANGED <<cfg, stream_open, env, probe, owner, bus_name_map, running, idle_since, nsignals>>
    /\ LoopHead

\* mutant of HandleTrackChanged: the state to log is cloned after the update
HandleTrackChanged_logs_new_state ==
    /\ Dequeue("TrackChanged")
    /\ LET ev == Head(queue)
           player == ev.player
       IN  IF player \in DOMAIN tracked_players
           THEN \E d \in LogDelays :
                  LET state == tracked_players[player]
                      logged == Qualifies(state, now)
                      s1 == [state EXCEPT !.track = ev.track,
                                          !.is_local = ev.is_local,
                                          !.seek_count = 0,
                                          !.intro_skipped = FALSE,
                                          !.seek_forward_ms = 0,
                                          !.seek_backward_ms = 0,
                                          !.last_position_us = 0]
                      s2 == IF s1.is_playing THEN start_playing(s1, now, wall) ELSE s1
                      t == IF logged THEN now + d ELSE now
                  IN  /\ tracked_players' = [tracked_players EXCEPT ![player] = s2]
                      /\ wall' = IF s1.is_playing THEN wall + 1 ELSE wall
                      /\ db_log_play(logged, player, s2, t)
                      /\ now' = t
           ELSE UNCHANGED <<tracked_players, wall, sink, lost, now>>
    /\ UNCHANGED <<cfg, stream_open, env, probe, owner, bus_name_map, running, idle_since, nsignals>>
    /\ LoopHead

\* mutant of HandleTrackChanged: the position and the intro flag survive
HandleTrackChanged_keeps_position ==
    /\ Dequeue("TrackChanged")
    /\ LET ev == Head(queue)
           player == ev.player
       IN  IF player \in DOMAIN tracked_players
           THEN \E d \in LogDelays :
                  LET state == tracked_players[player]
                      logged == Qualifies(state, now)
                      s1 == [state EXCEPT !.track = ev.track,
                                          !.is_local = ev.is_local,
                                          !.seek_count = 0,
                                          !.seek_forward_ms = 0,
                                          !.seek_backward_ms = 0]
                      s2 == IF s1.is_playing THEN start_playing(s1, now, wall) ELSE s1
                      t == IF logged THEN now + d ELSE now
                  IN  /\ tracked_players' = [tracked_players EXCEPT ![player] = s2]
                      /\ wall' = IF s1.is_playing THEN wall + 1 ELSE wall
                      /\ db_log_play(logged, player, state, t)
                      /\ now' = t
           ELSE UNCHANGED <<tracked_players, wall, sink, lost, now>>
    /\ UNCHANGED <<cfg, stream_open, env, probe, owner, bus_name_map, running, idle_since, nsignals>>
    /\ LoopHead

\* the TrackChanged arm, lines 437-511
HandleTrackChanged ==
    /\ Dequeue("TrackChanged")
    /\ LET ev == Head(queue)
           player == ev.player
       IN  IF player \in DOMAIN tracked_players
           THEN \E d \in LogDelays :
                  LET state == tracked_players[player]
                      logged == Qualifies(state, now)
                      s1 == [state EXCEPT !.track = ev.track,
                                          !.is_local = ev.is_local,
                                          !.seek_count = 0,
                                          !.intro_skipped = FALSE,
                                          !.seek_forward_ms = 0,
                                          !.seek_backward_ms = 0,
                                          !.last_position_us = 0]
                      s2 == IF s1.is_playing THEN start_playing(s1, now, wall) ELSE s1
                      t == IF logged THEN now + d ELSE now
                  IN  /\ tracked_players' = [tracked_players EXCEPT ![player] = s2]
                      /\ wall' = IF s1.is_playing THEN wall + 1 ELSE wall
                      /\ db_log_play(logged, player, state, t)
                      /\ now' = t
           ELSE UNCHANGED <<tracked_players, wall, sink, lost, now>>
    /\ UNCHANGED <<cfg, stream_open, env, probe, owner, bus_name_map, running, idle_since, nsignals>>
    /\ LoopHead

\* mutant of HandlePlaying: a player that is not tracked is taken in
HandlePlaying_admits_unknown ==
    /\ Dequeue("Playing")
    /\ LET player == Head(queue).player
       IN  IF player \in DOMAIN tracked_players
           THEN IF ~tracked_players[player].is_playing
                THEN /\ tracked_players' = [tracked_players EXCEPT
                             ![player] = start_playing(@, now, wall)]
                     /\ wall' = wall + 1
                ELSE UNCHANGED <<tracked_players, wall>>
           ELSE /\ tracked_players' = MapInsert(tracked_players, player,
                                                start_playing(NewTrackState, now, wall))
                /\ wall' = wall + 1
    /\ UNCHANGED <<cfg, stream_open, env, probe, owner, bus_name_map, running, idle_since, now, sink, lost,
                   nsignals>>
    /\ LoopHead

\* mutant of HandlePlaying: start_playing is called whatever is_playing is
HandlePlaying_always_restarts ==
    /\ Dequeue("Playing")
    /\ LET player == Head(queue).player
       IN  IF player \in DOMAIN tracked_players
           THEN /\ tracked_players' = [tracked_players EXCEPT
                        ![player] = start_playing(@, now, wall)]
                /\ wall' = wall + 1
           ELSE UNCHANGED <<tracked_players, wall>>
    /\ UNCHANGED <<cfg, stream_open, env, probe, owner, bus_name_map, running, idle_since, now, sink, lost,
                   nsignals>>
    /\ LoopHead

\* the Playing arm, lines 513-534
HandlePlaying ==
    /\ Dequeue("Playing")
    /\ LET player == Head(queue).player
       IN  IF player \in DOMAIN tracked_players /\ ~tracked_players[player].is_playing
           THEN /\ tracked_players' = [tracked_players EXCEPT
                        ![player] = start_playing(@, now, wall)]
                /\ wall' = wall + 1
           ELSE UNCHANGED <<tracked_players, wall>>
    /\ UNCHANGED <<cfg, stream_open, env, probe, owner, bus_name_map, running, idle_since, now, sink, lost,
                   nsignals>>
    /\ LoopHead

\* mutant of HandlePausedStopped: every pause of a playing state goes to
\* the database, with no should_log and not through log_play
HandlePausedStopped_logs_unconditionally ==
    /\ \/ Dequeue("Paused")
       \/ Dequeue("Stopped")
    /\ LET player == Head(queue).player
       IN  IF player \in DOMAIN tracked_players
           THEN LET state == tracked_players[player]
                IN  /\ tracked_players' = [tracked_players EXCEPT
                            ![player] = stop_playing(@)]
                    /\ sink' = IF state.is_playing
                               THEN Append(sink, PlayRecord(player, state, now))
                               ELSE sink
                    /\ lost' = lost
                    /\ now' = now
           ELSE UNCHANGED <<tracked_players, sink, lost, now>>
    /\ UNCHANGED <<cfg, stream_open, env, probe, owner, bus_name_map, running, idle_since, wall,
                   nsignals>>
    /\ LoopHead

\* the Paused | Stopped arm, lines 536-577
HandlePausedStopped ==
    /\ \/ Dequeue("Paused")
       \/ Dequeue("Stopped")
    /\ LET player == Head(queue).player
       IN  IF player \in DOMAIN tracked_players
           THEN \E d \in LogDelays :
                  LET state == tracked_players[player]
                      logged == Qualifies(state, now)
                      t == IF logged THEN now + d ELSE now
                  IN  /\ tracked_players' = [tracked_players EXCEPT
                              ![player] = stop_playing(@)]
                      /\ db_log_play(logged, player, state, t)
                      /\ now' = t
           ELSE UNCHANGED <<tracked_players, sink, lost, now>>
    /\ UNCHANGED <<cfg, stream_open, env, probe, owner, bus_name_map, running, idle_since, wall,
                   nsignals>>
    /\ LoopHead

\* the Seeked arm, lines 579-603
HandleSeeked ==
    /\ Dequeue("Seeked")
    /\ LET ev == Head(queue)
       IN  IF cfg.track_seeks /\ ev.player \in DOMAIN tracked_players
           THEN tracked_players' = [tracked_players EXCEPT
                    ![ev.player] = on_seeked(@, ev.position_us)]
           ELSE UNCHANGED tracked_players
    /\ UNCHANGED <<cfg, stream_open, env, probe, owner, bus_name_map, running, idle_since, now, wall,
                   sink, lost, nsignals>>
    /\ LoopHead

\* finalize(), lines 701-716: one log_play per qualifying player, in the
\* order the HashMap iterates
RECURSIVE finalize_log_without_gate(_, _, _)
\* mutant of finalize_log: the local_only gate is not applied
finalize_log_without_gate(log, keys, t) ==
    IF keys = <<>>
    THEN log
    ELSE finalize_log_without_gate(
            IF QualifiesOnRemoval(tracked_players[Head(keys)], now)
            THEN log_play(log, Head(keys), tracked_players[Head(keys)], t)
            ELSE log,
            Tail(keys), t)

RECURSIVE finalize_log(_, _, _)
finalize_log(log, keys, t) ==
    IF keys = <<>>
    THEN log
    ELSE finalize_log(
            IF Qualifies(tracked_players[Head(keys)], now)
            THEN log_play(log, Head(keys), tracked_players[Head(keys)], t)
            ELSE log,
            Tail(keys), t)

Finalize ==
    /\ pc = "finalize"
    /\ \E order \in Perms(DOMAIN tracked_players), d \in LogDelays :
       \E failed \in DbFailures(DOMAIN tracked_players) :
          /\ sink' = finalize_log(sink, SelectSeq(order, LAMBDA k : k \notin failed), now + d)
          /\ lost' = finalize_log(lost, SelectSeq(order, LAMBDA k : k \in failed), now + d)
          /\ now' = IF sink' = sink /\ lost' = lost THEN now ELSE now + d
    /\ pc' = "done"
    /\ UNCHANGED <<cfg, stream_open, env, probe, owner, tracked_players, bus_name_map, running,
                   idle_since, wall, queue, exit_reason, sleep_start, nsignals>>

\* ------------------------------------- the signal reader, handle_dbus_message
\* NameOwnerChanged(name, old_owner, new_owner), lines 322-345; an absent
\* owner is the empty string of the signal
name_owner_changed(name, old_owner, new_owner) ==
    IF starts_with(name, MPRIS_PREFIX)
    THEN IF ~IsSome(new_owner) /\ IsSome(old_owner)
         THEN <<[type |-> "PlayerDisappeared", player |-> name]>>
         ELSE IF IsSome(new_owner) /\ ~IsSome(old_owner)
         THEN <<[type |-> "PlayerAppeared", player |-> name]>>
         ELSE <<>>
    ELSE <<>>

\* mutant of properties_changed: the Metadata entry is looked at first
properties_changed_metadata_first(sender, status, metadata) ==
    LET recognized == IsSome(status) /\ Unwrap(status) \in {"Playing", "Paused", "Stopped"}
        status_events ==
            IF recognized
            THEN <<[type |-> Unwrap(status), player |-> sender]>>
            ELSE <<>>
        track == parse_metadata(Unwrap(metadata))
        metadata_events ==
            IF IsSome(metadata)
            THEN <<[type |-> "TrackChanged", player |-> sender, track |-> track,
                    is_local |-> is_local_source(track, cfg.local_only_players,
                                                 Some(sender))]>>
            ELSE <<>>
    IN  IF IsSome(status) /\ ~recognized
        THEN <<>>
        ELSE metadata_events \o status_events

\* PropertiesChanged on the Player interface from sender, lines 358-399;
\* status and metadata are the entries of the changed map, when present
properties_changed(sender, status, metadata) ==
    LET recognized == IsSome(status) /\ Unwrap(status) \in {"Playing", "Paused", "Stopped"}
        status_events ==
            IF recognized
            THEN <<[type |-> Unwrap(status), player |-> sender]>>
            ELSE <<>>
        track == parse_metadata(Unwrap(metadata))
        metadata_events ==
            IF IsSome(metadata)
            THEN <<[type |-> "TrackChanged", player |-> sender, track |-> track,
                    is_local |-> is_local_source(track, cfg.local_only_players,
                                                 Some(sender))]>>
            ELSE <<>>
    IN  IF IsSome(status) /\ ~recognized
        THEN <<>>
        ELSE status_events \o metadata_events

\* Seeked from sender, lines 406-419
seeked(sender, position) ==
    <<[type |-> "Seeked", player |-> sender, position_us |-> position]>>

\* mutant of Deliver: the events of a signal go to the front of the channel
Deliver_at_front(events) ==
    /\ pc = "select"
    /\ stream_open
    /\ nsignals < MaxSignals
    /\ Len(queue) + Len(events) <= MaxQueue
    /\ queue' = events \o queue
    /\ nsignals' = nsignals + 1

\* the events of one signal enter the channel while it has room
Deliver(events) ==
    /\ pc = "select"
    /\ stream_open
    /\ nsignals < MaxSignals
    /\ Len(queue) + Len(events) <= MaxQueue
    /\ queue' = queue \o events
    /\ nsignals' = nsignals + 1


SignalNameAcquired ==
    \E w \in WellKnown :
        /\ ~IsSome(owner[w])
        /\ owner' = [owner EXCEPT ![w] = Some(ConnectionOf(w))]
        /\ Deliver(name_owner_changed(w, None, Some(ConnectionOf(w))))
        /\ UNCHANGED <<cfg, stream_open, env, probe, tracked_players, bus_name_map, running, idle_since,
                       now, wall, sink, lost, pc, exit_reason, sleep_start>>

SignalNameLost ==
    \E w \in WellKnown :
        /\ IsSome(owner[w])
        /\ owner' = [owner EXCEPT ![w] = None]
        /\ Deliver(name_owner_changed(w, owner[w], None))
        /\ UNCHANGED <<cfg, stream_open, env, probe, tracked_players, bus_name_map, running, idle_since,
                       now, wall, sink, lost, pc, exit_reason, sleep_start>>

SignalPropertiesChanged ==
    \E u \in Unique : \E c \in env.changes[u] :
        /\ Deliver(properties_changed(u, c.status, c.metadata))
        /\ UNCHANGED <<cfg, stream_open, env, probe, owner, tracked_players, bus_name_map, running,
                       idle_since, now, wall, sink, lost, pc, exit_reason, sleep_start>>

SignalSeeked ==
    \E u \in Unique : \E p \in env.positions[u] :
        /\ Deliver(seeked(u, p))
        /\ UNCHANGED <<cfg, stream_open, env, probe, owner, tracked_players, bus_name_map, running,
                       idle_since, now, wall, sink, lost, pc, exit_reason, sleep_start>>

\* The MessageStream ends (the bus connection is gone): stream.next() returns
\* None and the spawned reader, lines 115-121, returns, dropping tx_clone.
\* run() still holds tx, line 108, so the channel stays open and rx.recv()
\* goes on waiting.
StreamEnds ==
    /\ pc = "select"
    /\ stream_open
    /\ stream_open' = FALSE
    /\ UNCHANGED <<cfg, env, probe, owner, tracked_players, bus_name_map, running,
                   idle_since, now, wall, queue, sink, lost, pc, exit_reason,
                   sleep_start, nsignals>>

\* ------------------------------------------------------------ specification
Next ==
    \/ Discover
    \/ Wake
    \/ Stop
    \/ Tick
    \/ HandlePlayerAppeared
    \/ HandlePlayerDisappeared
    \/ HandleTrackChanged
    \/ HandlePlaying
    \/ HandlePausedStopped
    \/ HandleSeeked
    \/ Finalize
    \/ SignalNameAcquired
    \/ SignalNameLost
    \/ SignalPropertiesChanged
    \/ SignalSeeked

Spec == Init /\ [][Next]_vars

\* The runtime runs what is ready: time passes and the sleep of select!
\* fires, a received event is handled and the handler returns, and
\* finalize() completes.
HandleEvent ==
    \/ HandlePlayerAppeared
    \/ HandlePlayerDisappeared
    \/ HandleTrackChanged
    \/ HandlePlaying
    \/ HandlePausedStopped
    \/ HandleSeeked

Fairness ==
    /\ WF_vars(Tick)
    /\ WF_vars(Wake)
    /\ WF_vars(HandleEvent)
    /\ WF_vars(Finalize)

FairSpec == Spec /\ Fairness

SpecFailingDb == InitFailingDb /\ [][Next]_vars

SpecCombined == InitCombined /\ [][Next]_vars

\* The same program on a bus connection that can go away while the monitor
\* runs; Spec and FairSpec are the program on a connection that stays up.
NextStreamEnds ==
    \/ Next
    \/ StreamEnds

FairSpecStreamEnds == Init /\ [][NextStreamEnds]_vars /\ Fairness


\* ------------------------------------------- should_log on its own
\* The states should_log is called on here: with and without a title, an
\* episode begun at 0 or never begun, durations unknown, zero, negative, one
\* minute and ten minutes; read at instants around each threshold.
ProbeStates ==
    { [NewTrackState EXCEPT !.track.title = title,
                            !.track.duration_us = duration,
                            !.start_time = start,
                            !.is_playing = IsSome(start)]
      : title \in {None, Some("Test")},
        duration \in {None, Some(0), Some(0 - 1000), Some(60000000), Some(600000000)},
        start \in {None, Some(0)} }

ProbeInstants ==
    {0, 999, 1000, 29999, 30000, 35000, 200000, 239000, 239999, 240000, 241000, 300000}

Probes ==
    [state : ProbeStates, t : ProbeInstants, min_seconds : {0, 30, 240, 241},
     min_percent : {0, 50, 100}, result : {None}]

\* what is in the registry and the sink while should_log is called
ProbeRegistries == {EmptyMap, [u \in {U1} |-> NewTrackState]}
ProbeSinks == {<<>>, <<PlayRecord(U1, NewTrackState, 0)>>}

InitShouldLog ==
    /\ cfg \in {c \in Configs : c.local_only}
    /\ env = CoreEnv
    /\ probe \in Probes
    /\ owner = [w \in WellKnown |-> None]
    /\ tracked_players \in ProbeRegistries
    /\ bus_name_map = EmptyMap
    /\ running = TRUE
    /\ idle_since = None
    /\ now = 0
    /\ wall = 0
    /\ queue = <<>>
    /\ sink \in ProbeSinks
    /\ lost = <<>>
    /\ pc = "should_log"
    /\ exit_reason = "none"
    /\ sleep_start = 0
    /\ nsignals = 0
    /\ stream_open = TRUE

CallShouldLog ==
    /\ pc = "should_log"
    /\ ~IsSome(probe.result)
    /\ probe' = [probe EXCEPT !.result =
            Some(should_log(probe.state, probe.t, probe.min_seconds, probe.min_percent))]
    /\ UNCHANGED <<cfg, stream_open, env, owner, tracked_players, bus_name_map, running,
                   idle_since, now, wall, queue, sink, lost, pc, exit_reason,
                   sleep_start, nsignals>>

SpecShouldLog == InitShouldLog /\ [][CallShouldLog]_vars

\* --------------------------------------------- on_seeked on its own
\* Seeked positions around the two thresholds, from a state TrackState::new()
\* made; probe.positions is the sequence of positions on_seeked was called
\* with.
SeekPositions == {0, 1000000, 4999999, 5000000, 15000000, 15000001, 20000000}

InitOnSeeked ==
    /\ cfg \in {c \in Configs : c.track_seeks /\ c.local_only}
    /\ env = CoreEnv
    /\ probe = [state |-> NewTrackState, positions |-> <<>>]
    /\ owner = [w \in WellKnown |-> None]
    /\ tracked_players = EmptyMap
    /\ bus_name_map = EmptyMap
    /\ running = TRUE
    /\ idle_since = None
    /\ now = 0
    /\ wall = 0
    /\ queue = <<>>
    /\ sink = <<>>
    /\ lost = <<>>
    /\ pc = "on_seeked"
    /\ exit_reason = "none"
    /\ sleep_start = 0
    /\ nsignals = 0
    /\ stream_open = TRUE

CallOnSeeked ==
    /\ pc = "on_seeked"
    /\ Len(probe.positions) < MaxSeeks
    /\ \E new_position_us \in SeekPositions :
          probe' = [state |-> on_seeked(probe.state, new_position_us),
                    positions |-> Append(probe.positions, new_position_us)]
    /\ UNCHANGED <<cfg, stream_open, env, owner, tracked_players, bus_name_map, running,
                   idle_since, now, wall, queue, sink, lost, pc, exit_reason,
                   sleep_start, nsignals>>

SpecOnSeeked == InitOnSeeked /\ [][CallOnSeeked]_vars

\* ------------------------------------------------- start-up on its own
\* The two programs that start the monitor: the combined CLI's track command
\* (main.rs) and the standalone tracker (bin/tracker.rs), from the
\* configuration just loaded to the monitor running. probe.config holds the
\* three values Config::validate looks at, min_play_percent in hundredths.
ProbeMinPlayPercents == {-1, 0, 50, 100, 101}

ProbeMinPlaySeconds == {0, 3600, 3601}

ProbeLogLevels == {"info", "WARN", "loud"}

EntryPoints == {"cli_track", "tracker_bin"}

to_lowercase(str) ==
    CASE str = "WARN" -> "warn"
      [] OTHER -> str

valid_levels == {"trace", "debug", "info", "warn", "error"}

validate(config) ==
    IF ~(0 <= config.min_play_percent /\ config.min_play_percent <= 100)
    THEN "Err"
    ELSE IF config.min_play_seconds > 3600
    THEN "Err"
    ELSE IF to_lowercase(config.log_level) \notin valid_levels
    THEN "Err"
    ELSE "Ok"

StartupFrame ==
    UNCHANGED <<cfg, stream_open, env, owner, tracked_players, bus_name_map, running,
                idle_since, now, wall, queue, sink, lost, pc, exit_reason,
                sleep_start, nsignals>>

InitStartup ==
    /\ cfg \in {c \in Configs : c.track_seeks /\ c.local_only}
    /\ env = CoreEnv
    /\ probe \in [entry : EntryPoints,
                  config : [min_play_percent : ProbeMinPlayPercents,
                            min_play_seconds : ProbeMinPlaySeconds,
                            log_level : ProbeLogLevels],
                  stage : {"loaded"},
                  connected : {FALSE},
                  monitoring : {FALSE},
                  exit : {"none"}]
    /\ owner = [w \in WellKnown |-> None]
    /\ tracked_players = EmptyMap
    /\ bus_name_map = EmptyMap
    /\ running = TRUE
    /\ idle_since = None
    /\ now = 0
    /\ wall = 0
    /\ queue = <<>>
    /\ sink = <<>>
    /\ lost = <<>>
    /\ pc = "startup"
    /\ exit_reason = "none"
    /\ sleep_start = 0
    /\ nsignals = 0
    /\ stream_open = TRUE

\* main.rs: `config.validate()?` before the command is dispatched.
cli_main ==
    /\ pc = "startup"
    /\ probe.entry = "cli_track"
    /\ probe.stage = "loaded"
    /\ probe' = IF validate(probe.config) = "Err"
                THEN [probe EXCEPT !.stage = "exited", !.exit = "error"]
                ELSE [probe EXCEPT !.stage = "run_tracker"]
    /\ StartupFrame

\* bin/tracker.rs: the configuration goes from load to the monitor as it is.
tracker_main ==
    /\ pc = "startup"
    /\ probe.entry = "tracker_bin"
    /\ probe.stage = "loaded"
    /\ probe' = [probe EXCEPT !.stage = "run_tracker"]
    /\ StartupFrame

\* MprisMonitor::new opens the session bus connection.
MonitorNew ==
    /\ pc = "startup"
    /\ probe.stage = "run_tracker"
    /\ probe' = [probe EXCEPT !.stage = "monitor", !.connected = TRUE]
    /\ StartupFrame

\* monitor.run(): discovery and the signal subscription.
MonitorRun ==
    /\ pc = "startup"
    /\ probe.stage = "monitor"
    /\ probe' = [probe EXCEPT !.stage = "running", !.monitoring = TRUE]
    /\ StartupFrame

NextStartup ==
    \/ cli_main
    \/ tracker_main
    \/ MonitorNew
    \/ MonitorRun

SpecStartup == InitStartup /\ [][NextStartup]_vars

\* ------------------------------------- the registry lock, step by step
\* One logging arm of handle_event (or remove_player) for the player U1, taken
\* apart at its awaits: acquiring tracked_players.write(), the qualification
\* test, the update, the end of the guard's scope and the await of log_play.
\* probe.lock is who holds the registry lock, probe.state_to_log the clone
\* the arm keeps for log_play, probe.prior the state the test looked at.
\* Another task (OtherLocks, OtherUnlocks) takes the lock whenever it is free
\* and does to U1 what the Playing arm does.
LockArms == {"TrackChanged", "Paused", "Stopped", "PlayerDisappeared"}

ProbeEvents ==
    { [type |-> "TrackChanged", player |-> U1, track |-> parse_metadata(MetaB),
       is_local |-> is_local_source(parse_metadata(MetaB), cfg.local_only_players,
                                    Some(U1))],
      [type |-> "Paused", player |-> U1],
      [type |-> "Stopped", player |-> U1],
      [type |-> "PlayerDisappeared", player |-> W1] }

\* U1 as add_player left it at 0, playing or not
ProbeAdmitted ==
    { add_player([players |-> EmptyMap, names |-> EmptyMap, idle |-> None,
                  wall |-> 0, ok |-> TRUE],
                 W1, Some(U1), Some(MetaA), Some(status)).players :
        status \in {"Playing", "Paused"} }

NoLock == [lock |-> "free", state_to_log |-> None, prior |-> None, others |-> 0]

InitLocking ==
    /\ cfg \in Configs
    /\ env = CoreEnv
    /\ probe = NoLock
    /\ owner = [w \in WellKnown |-> IF w = W1 THEN Some(U1) ELSE None]
    /\ now = 0
    /\ tracked_players \in ProbeAdmitted
    /\ bus_name_map = MapInsert(EmptyMap, U1, W1)
    /\ running = TRUE
    /\ idle_since = None
    /\ wall = 1
    /\ queue \in {<<ev>> : ev \in ProbeEvents}
    /\ sink = <<>>
    /\ lost = <<>>
    /\ pc = "arm"
    /\ exit_reason = "none"
    /\ sleep_start = 0
    /\ nsignals = 0
    /\ stream_open = TRUE

LockFrame ==
    UNCHANGED <<cfg, stream_open, env, owner, running, exit_reason, sleep_start,
                nsignals, lost, queue>>

\* the player the event is for: remove_player looks the unique name up in
\* bus_name_map, lines 271-281
ArmPlayer ==
    IF Head(queue).type = "PlayerDisappeared"
    THEN CHOOSE k \in DOMAIN bus_name_map : bus_name_map[k] = Head(queue).player
    ELSE Head(queue).player

\* time passes while the arm waits at an await
LockingTick ==
    /\ pc \in {"arm", "released"}
    /\ now + TickMs <= MaxTime
    /\ now' = now + TickMs
    /\ UNCHANGED <<tracked_players, bus_name_map, idle_since, wall, sink, pc, probe>>
    /\ LockFrame

\* self.tracked_players.write().await, lines 283, 451, 547
LockWrite ==
    /\ pc = "arm"
    /\ probe.lock = "free"
    /\ probe' = [probe EXCEPT !.lock = "handler"]
    /\ pc' = "locked"
    /\ UNCHANGED <<tracked_players, bus_name_map, idle_since, now, wall, sink>>
    /\ LockFrame

\* mutant of Decide: the guard is dropped once the test is made
Decide_drops_guard ==
    /\ \/ pc = "locked" /\ Head(queue).type /= "PlayerDisappeared"
       \/ pc = "removed"
    /\ LET removal == Head(queue).type = "PlayerDisappeared"
           seen == IF removal THEN probe.prior
                   ELSE IF ArmPlayer \in DOMAIN tracked_players
                   THEN Some(tracked_players[ArmPlayer]) ELSE None
           logged == /\ IsSome(seen)
                     /\ IF removal THEN QualifiesOnRemoval(Unwrap(seen), now)
                        ELSE Qualifies(Unwrap(seen), now)
       IN  probe' = [probe EXCEPT !.prior = seen,
                                  !.state_to_log = IF logged THEN seen ELSE None,
                                  !.lock = "free"]
    /\ pc' = "decided"
    /\ UNCHANGED <<tracked_players, bus_name_map, idle_since, now, wall, sink>>
    /\ LockFrame

\* the qualification test: lines 453-468 and 548-561 on the state in the
\* registry, lines 289-294 on the state remove() returned
Decide ==
    /\ \/ pc = "locked" /\ Head(queue).type /= "PlayerDisappeared"
       \/ pc = "removed"
    /\ LET removal == Head(queue).type = "PlayerDisappeared"
           seen == IF removal THEN probe.prior
                   ELSE IF ArmPlayer \in DOMAIN tracked_players
                   THEN Some(tracked_players[ArmPlayer]) ELSE None
           logged == /\ IsSome(seen)
                     /\ IF removal THEN QualifiesOnRemoval(Unwrap(seen), now)
                        ELSE Qualifies(Unwrap(seen), now)
       IN  probe' = [probe EXCEPT !.prior = seen,
                                  !.state_to_log = IF logged THEN seen ELSE None]
    /\ pc' = "decided"
    /\ UNCHANGED <<tracked_players, bus_name_map, idle_since, now, wall, sink>>
    /\ LockFrame

\* the update: lines 471-485 (new track), 564-567 (stop_playing), 285 (remove)
Mutate ==
    /\ \/ pc = "decided" /\ Head(queue).type /= "PlayerDisappeared"
       \/ pc = "locked" /\ Head(queue).type = "PlayerDisappeared"
    /\ LET ev == Head(queue)
           present == ArmPlayer \in DOMAIN tracked_players
           state == tracked_players[ArmPlayer]
           s1 == [state EXCEPT !.track = ev.track,
                               !.is_local = ev.is_local,
                               !.seek_count = 0,
                               !.intro_skipped = FALSE,
                               !.seek_forward_ms = 0,
                               !.seek_backward_ms = 0,
                               !.last_position_us = 0]
       IN  CASE ev.type = "PlayerDisappeared" ->
                  /\ tracked_players' = MapRemove(tracked_players, ArmPlayer)
                  /\ probe' = [probe EXCEPT !.prior = IF present THEN Some(state) ELSE None]
                  /\ pc' = "removed"
                  /\ wall' = wall
             [] ev.type = "TrackChanged" ->
                  /\ tracked_players' =
                        IF present
                        THEN [tracked_players EXCEPT ![ArmPlayer] =
                                 IF s1.is_playing THEN start_playing(s1, now, wall) ELSE s1]
                        ELSE tracked_players
                  /\ wall' = IF present /\ s1.is_playing THEN wall + 1 ELSE wall
                  /\ probe' = probe
                  /\ pc' = "mutated"
             [] OTHER ->
                  /\ tracked_players' =
                        IF present
                        THEN [tracked_players EXCEPT ![ArmPlayer] = stop_playing(@)]
                        ELSE tracked_players
                  /\ wall' = wall
                  /\ probe' = probe
                  /\ pc' = "mutated"
    /\ UNCHANGED <<bus_name_map, idle_since, now, sink>>
    /\ LockFrame

\* the write guard goes out of scope: at the end of the block, lines 505 and
\* 571; at the end of remove_player, line 310, after lines 299-309
Unlock ==
    /\ probe.lock = "handler"
    /\ \/ /\ pc = "mutated"
          /\ pc' = "released"
          /\ UNCHANGED <<bus_name_map, idle_since>>
       \/ /\ pc = "logged"
          /\ Head(queue).type = "PlayerDisappeared"
          /\ pc' = "done"
          /\ bus_name_map' = MapRemove(bus_name_map, ArmPlayer)
          /\ idle_since' = IF DOMAIN tracked_players = {} THEN Some(now) ELSE idle_since
    /\ probe' = [probe EXCEPT !.lock = "free"]
    /\ UNCHANGED <<tracked_players, now, wall, sink>>
    /\ LockFrame

\* self.log_play(&state).await: lines 507-510 and 574-576 after the block,
\* line 296 inside remove_player
AwaitLogPlay ==
    /\ \/ /\ pc = "released"
          /\ pc' = "done"
       \/ /\ pc = "decided"
          /\ Head(queue).type = "PlayerDisappeared"
          /\ pc' = "logged"
    /\ \E d \in LogDelays :
          LET logged == IsSome(probe.state_to_log)
              t == IF logged THEN now + d ELSE now
          IN  /\ sink' = IF logged
                         THEN log_play(sink, ArmPlayer, Unwrap(probe.state_to_log), t)
                         ELSE sink
              /\ now' = t
    /\ UNCHANGED <<tracked_players, bus_name_map, idle_since, wall, probe>>
    /\ LockFrame

\* another task gets the registry lock and does what the Playing arm does,
\* lines 513-534
OtherLocks ==
    /\ pc /= "done"
    /\ probe.lock = "free"
    /\ probe.others < MaxOthers
    /\ probe' = [probe EXCEPT !.lock = "other", !.others = @ + 1]
    /\ IF U1 \in DOMAIN tracked_players /\ ~tracked_players[U1].is_playing
       THEN /\ tracked_players' = [tracked_players EXCEPT
                                      ![U1] = start_playing(@, now, wall)]
            /\ wall' = wall + 1
       ELSE UNCHANGED <<tracked_players, wall>>
    /\ UNCHANGED <<bus_name_map, idle_since, now, sink, pc>>
    /\ LockFrame

OtherUnlocks ==
    /\ probe.lock = "other"
    /\ probe' = [probe EXCEPT !.lock = "free"]
    /\ UNCHANGED <<tracked_players, bus_name_map, idle_since, now, wall, sink, pc>>
    /\ LockFrame

NextLocking ==
    \/ LockingTick
    \/ LockWrite
    \/ Decide
    \/ Mutate
    \/ Unlock
    \/ AwaitLogPlay
    \/ OtherLocks
    \/ OtherUnlocks

SpecLocking == InitLocking /\ [][NextLocking]_vars

\* -------------------------------------- PropertiesChanged on its own
\* One PropertiesChanged message on the Player interface: probe.status and
\* probe.metadata are the PlaybackStatus and Metadata entries of its changed
\* map, when present; probe.events is what handle_dbus_message sent to the
\* channel for it.
ProbeStatuses == {None, Some("Playing"), Some("Paused"), Some("Stopped"), Some("Buffering")}

ProbeMetadata == {None} \cup {Some(m) : m \in Metas}

InitPropertiesChanged ==
    /\ cfg \in Configs
    /\ env = CoreEnv
    /\ probe \in [sender : Unique, status : ProbeStatuses, metadata : ProbeMetadata,
                  handled : {FALSE}, events : {<<>>}]
    /\ owner = [w \in WellKnown |-> None]
    /\ tracked_players = EmptyMap
    /\ bus_name_map = EmptyMap
    /\ running = TRUE
    /\ idle_since = None
    /\ now = 0
    /\ wall = 0
    /\ queue = <<>>
    /\ sink = <<>>
    /\ lost = <<>>
    /\ pc = "properties_changed"
    /\ exit_reason = "none"
    /\ sleep_start = 0
    /\ nsignals = 0
    /\ stream_open = TRUE

CallPropertiesChanged ==
    /\ pc = "properties_changed"
    /\ ~probe.handled
    /\ probe' = [probe EXCEPT
                    !.handled = TRUE,
                    !.events = properties_changed(probe.sender, probe.status,
                                                  probe.metadata)]
    /\ UNCHANGED <<cfg, stream_open, env, owner, tracked_players, bus_name_map, running,
                   idle_since, now, wall, queue, sink, lost, pc, exit_reason,
                   sleep_start, nsignals>>

SpecPropertiesChanged == InitPropertiesChanged /\ [][CallPropertiesChanged]_vars

\* ------------------------------------------------ add_player on its own
\* add_player called with U1 already admitted at 0 (playing or paused, with or
\* without a seek since): for a well-known name that get_name_owner resolves
\* to U1 again (a connection may own several names), to another connection,
\* or not at all. probe.before is the registry the call found.
ProbeSeeked(players) ==
    {players, [players EXCEPT ![U1] = on_seeked(@, 1000000)]}

ProbeResolved == {None, Some(U1), Some(U2)}

ProbeAnswers == {None, Some("Playing"), Some("Paused")}

NoCall == [calls |-> 0, name |-> W1, resolved |-> None, metadata |-> None,
           status |-> None, before |-> Registry]

InitAddPlayer ==
    /\ cfg \in Configs
    /\ env = CoreEnv
    /\ owner = [w \in WellKnown |-> IF w = W1 THEN Some(U1) ELSE None]
    /\ now = 0
    /\ \E admitted \in ProbeAdmitted : tracked_players \in ProbeSeeked(admitted)
    /\ bus_name_map = MapInsert(EmptyMap, U1, W1)
    /\ running = TRUE
    /\ idle_since = None
    /\ wall = 1
    /\ probe = NoCall
    /\ queue = <<>>
    /\ sink = <<>>
    /\ lost = <<>>
    /\ pc = "add_player"
    /\ exit_reason = "none"
    /\ sleep_start = 0
    /\ nsignals = 0
    /\ stream_open = TRUE

CallAddPlayer ==
    /\ pc = "add_player"
    /\ probe.calls < MaxCalls
    /\ \E name \in WellKnown, resolved \in ProbeResolved,
          metadata \in ProbeMetadata, status \in ProbeAnswers :
          LET r == add_player(Registry, name, resolved, metadata, status)
          IN  /\ tracked_players' = r.players
              /\ bus_name_map' = r.names
              /\ idle_since' = r.idle
              /\ wall' = r.wall
              /\ probe' = [calls |-> probe.calls + 1, name |-> name,
                           resolved |-> resolved, metadata |-> metadata,
                           status |-> status, before |-> Registry]
    /\ UNCHANGED <<cfg, stream_open, env, owner, running, now, queue, sink, lost, pc,
                   exit_reason, sleep_start, nsignals>>

\* time passes between two admissions
AddPlayerTick ==
    /\ pc = "add_player"
    /\ now + TickMs <= MaxTime
    /\ now' = now + TickMs
    /\ UNCHANGED <<cfg, stream_open, env, probe, owner, tracked_players, bus_name_map,
                   running, idle_since, wall, queue, sink, lost, pc, exit_reason,
                   sleep_start, nsignals>>

NextAddPlayer ==
    \/ CallAddPlayer
    \/ AddPlayerTick

SpecAddPlayer == InitAddPlayer /\ [][NextAddPlayer]_vars

\* ---------------------------------------- is_local_source on its own
ProbeUrls ==
    { None,
      Some(<<"file://", "/home/user/music/song.mp3">>),
      Some(<<"/", "home/user/music/song.mp3">>),
      Some(<<"http://", "stream.example.com/song">>),
      Some(<<"https://", "stream.example.com/song">>),
      Some(<<"spotify:", "track:abc123">>),
      Some(<<"deezer:", "track:123">>),
      Some(<<"tidal:", "track:123">>),
      Some(<<"ftp://", "example.com/song">>),
      Some(<<"music", "/", "song.mp3">>) }

ProbePlayerNames ==
    { None, Some(W1), Some(W2), Some(U1), Some(<<"io.bassi.Amberol">>),
      Some(<<"org.example.", "io.bassi.Amberol", ".instance1">>) }

ProbeLocalPlayers ==
    { {}, {<<"io.bassi.Amberol">>}, {<<"mpv">>, <<"cmus">>},
      {<<"org.mpris.MediaPlayer2.", "io.bassi.Amberol">>} }

InitIsLocalSource ==
    /\ cfg \in {c \in Configs : c.local_only}
    /\ env = CoreEnv
    /\ probe \in [track : {[DefaultTrack EXCEPT !.file_path = url] : url \in ProbeUrls},
                   local_players : ProbeLocalPlayers,
                   player_name : ProbePlayerNames,
                   result : {None}]
    /\ owner = [w \in WellKnown |-> None]
    /\ tracked_players \in ProbeRegistries
    /\ bus_name_map = EmptyMap
    /\ running = TRUE
    /\ idle_since = None
    /\ now = 0
    /\ wall = 0
    /\ queue = <<>>
    /\ sink = <<>>
    /\ lost = <<>>
    /\ pc = "is_local_source"
    /\ exit_reason = "none"
    /\ sleep_start = 0
    /\ nsignals = 0
    /\ stream_open = TRUE

CallIsLocalSource ==
    /\ pc = "is_local_source"
    /\ ~IsSome(probe.result)
    /\ probe' = [probe EXCEPT !.result =
            Some(is_local_source(probe.track, probe.local_players, probe.player_name))]
    /\ UNCHANGED <<cfg, stream_open, env, owner, tracked_players, bus_name_map, running,
                   idle_since, now, wall, queue, sink, lost, pc, exit_reason,
                   sleep_start, nsignals>>

SpecIsLocalSource == InitIsLocalSource /\ [][CallIsLocalSource]_vars

\* ------------------------------------------------------------------ claims
Records == DOMAIN sink
Tracked == DOMAIN tracked_players
LoopExited == pc \in {"finalize", "done"}

\* C1: no double-log. No two entries of the sink are for the same player and
\* the same start_timestamp, in any state of a run, finalize included.
C1_NoDoubleLog ==
    \A i \in Records : \A j \in Records :
        i < j =>
            ~(/\ sink[i].player = sink[j].player
              /\ sink[i].state.start_timestamp = sink[j].state.start_timestamp)

\* Two episodes of one player were logged and run() has returned.
C1_Witness ==
    /\ pc = "done"
    /\ Len(sink) = 2
    /\ sink[1].player = sink[2].player
    /\ sink[1].state.track = sink[2].state.track

\* C2 (as claimed): with local_only set, every entry of the sink has
\* is_local = TRUE, whichever path logged it.
C2_LocalOnlyEveryPath ==
    cfg.local_only => \A i \in Records : sink[i].state.is_local

\* C3: no entry of the sink has a track without a title.
C3_NoTitleNeverLogged ==
    \A i \in Records : IsSome(sink[i].state.track.title)

\* run() has returned with thresholds of zero while a player was playing a
\* track without a title, for a second or more, and nothing was logged for it.
C3_Witness ==
    /\ pc = "done"
    /\ cfg.min_play_seconds = 0
    /\ cfg.min_play_percent = 0
    /\ \E u \in Tracked :
          /\ tracked_players[u].is_playing
          /\ ~IsSome(tracked_players[u].track.title)
          /\ played_ms(tracked_players[u], now) >= 1000
          /\ \A i \in Records : sink[i].player /= u

\* The step dequeues an event of this type for this player: handle_event runs
\* its arm.
Handles(type, player) ==
    /\ pc = "select"
    /\ queue /= <<>>
    /\ Head(queue).type = type
    /\ Head(queue).player = player
    /\ queue' = Tail(queue)

\* the one entry a step added to the sink
Appended == sink'[Len(sink) + 1]
AppendedOne == Len(sink') = Len(sink) + 1 /\ SubSeq(sink', 1, Len(sink)) = sink

\* C7: player disappearance mid-play. A step that handles PlayerDisappeared
\* for the name of a tracked player whose playing episode qualifies appends
\* exactly one entry, the state of that episode; the player leaves
\* tracked_players and bus_name_map; and idle_since is set when the registry
\* is left empty.
C7_Disappearance ==
    [][\A u \in Tracked :
          (/\ u \in DOMAIN bus_name_map
           /\ Handles("PlayerDisappeared", bus_name_map[u])
           /\ Qualifies(tracked_players[u], now))
          => /\ AppendedOne
             /\ Appended.player = u
             /\ Appended.state = tracked_players[u]
             /\ u \notin DOMAIN tracked_players'
             /\ u \notin DOMAIN bus_name_map'
             /\ (DOMAIN tracked_players' = {} => IsSome(idle_since'))]_vars

\* S6: after a single signal, the loss of the name, the episode is in the
\* sink, the registry and the name map are empty and the idle timer runs.
C7_Witness ==
    /\ nsignals = 1
    /\ queue = <<>>
    /\ Len(sink) = 1
    /\ sink[1].state.is_playing
    /\ Tracked = {}
    /\ DOMAIN bus_name_map = {}
    /\ ~IsSome(owner[W1])
    /\ IsSome(idle_since)

\* C8: idle-shutdown soundness. Once the loop has been left, the registry is
\* empty or the stop flag was set.
C8_IdleShutdownSound ==
    (LoopExited /\ Tracked /= {}) => ~running

\* The loop was left on the idle timeout, of a run that had admitted a player.
C8_Witness ==
    /\ pc = "done"
    /\ exit_reason = "idle"
    /\ running
    /\ Tracked = {}
    /\ nsignals >= 1
    /\ Len(sink) = 1

SeekCountersZero(state) ==
    /\ state.seek_count = 0
    /\ state.seek_forward_ms = 0
    /\ state.seek_backward_ms = 0
    /\ ~state.intro_skipped

\* C6: seamless track change. A step that handles TrackChanged for a player
\* whose playing episode qualifies appends exactly one entry, the state as it
\* was before the event (the outgoing track and the seek counters accumulated
\* so far), and leaves the player on the incoming track with its seek counters
\* at zero; a step that handles Paused or Stopped for a player whose playing
\* episode qualifies appends exactly one entry, the state before the event.
\* Entries are only ever added at the end of the sink, so the outgoing track
\* comes before the incoming one.
C6_SeamlessTrackChange ==
    [][/\ \E k \in 0..2 : Len(sink') = Len(sink) + k /\ SubSeq(sink', 1, Len(sink)) = sink
       /\ \A u \in Tracked :
            /\ (Handles("TrackChanged", u) /\ Qualifies(tracked_players[u], now))
               => /\ AppendedOne
                  /\ Appended.player = u
                  /\ Appended.state = tracked_players[u]
                  /\ tracked_players'[u].track = Head(queue).track
                  /\ SeekCountersZero(tracked_players'[u])
            /\ ((Handles("Paused", u) \/ Handles("Stopped", u))
                    /\ Qualifies(tracked_players[u], now))
               => /\ AppendedOne
                  /\ Appended.player = u
                  /\ Appended.state = tracked_players[u]]_vars

\* S4: one player's sink holds A, played a second with one seek before the
\* track change, then B, played a second with no seek, and the player is
\* paused.
C6_Witness ==
    /\ Len(sink) = 2
    /\ sink[1].player = U1 /\ sink[2].player = U1
    /\ sink[1].state.track = parse_metadata(MetaA)
    /\ sink[1].state.seek_count = 1
    /\ sink[1].state.seek_forward_ms = 1000
    /\ sink[1].played_ms >= 1000
    /\ sink[2].state.track = parse_metadata(MetaB)
    /\ SeekCountersZero(sink[2].state)
    /\ sink[2].played_ms >= 1000
    /\ U1 \in Tracked /\ ~tracked_players[U1].is_playing
    /\ pc = "select"

\* the played time of the probe, in milliseconds and in whole seconds
ProbePlayed == probe.t - Unwrap(probe.state.start_time)
ProbePlayedSeconds == ProbePlayed \div 1000
ProbeDuration == Unwrap(probe.state.track.duration_us)
\* played / (duration / 1e6) >= min_percent / 100, for durations of whole ms
ProbeFractionReached ==
    ProbePlayed * 100 >= (ProbeDuration \div 1000) * probe.min_percent

\* C4: should_log is true iff the title is present, start_time is present,
\* the whole seconds played reach min_seconds, and the duration is unknown or
\* not positive, or the played fraction reaches min_percent, or 240 whole
\* seconds were played; whatever the registry and the sink hold.
C4_ShouldLogIff ==
    IsSome(probe.result) =>
        Unwrap(probe.result) =
            (/\ IsSome(probe.state.track.title)
             /\ IsSome(probe.state.start_time)
             /\ ProbePlayedSeconds >= probe.min_seconds
             /\ \/ ~IsSome(probe.state.track.duration_us)
                \/ ProbeDuration <= 0
                \/ ProbeFractionReached
                \/ ProbePlayedSeconds >= 240)

\* should_log answered true on the percent rule alone (35 s of 60 s at 0.5),
\* with a registry and a sink that are not empty.
C4_Witness ==
    /\ probe.result = Some(TRUE)
    /\ probe.t = 35000
    /\ probe.min_seconds = 30
    /\ probe.min_percent = 50
    /\ probe.state.track.duration_us = Some(60000000)
    /\ tracked_players /= EmptyMap
    /\ sink /= <<>>

\* C5: the 4-minute rule. For a titled, started track of known positive
\* duration played for less than min_percent of its length, with
\* min_seconds <= 240, should_log is true exactly when 240 whole seconds were
\* played; min_percent = 1.0 included.
C5_FourMinuteRule ==
    (/\ IsSome(probe.result)
     /\ IsSome(probe.state.track.title)
     /\ IsSome(probe.state.start_time)
     /\ IsSome(probe.state.track.duration_us)
     /\ ProbeDuration > 0
     /\ ~ProbeFractionReached
     /\ probe.min_seconds <= 240)
    => (Unwrap(probe.result) = (ProbePlayed >= 240000))

\* 240 s of a ten-minute track with min_percent = 1.0 qualified.
C5_Witness ==
    /\ probe.result = Some(TRUE)
    /\ probe.t = 240000
    /\ probe.state.start_time = Some(0)
    /\ probe.state.track.duration_us = Some(600000000)
    /\ probe.min_percent = 100
    /\ probe.min_seconds = 30

\* the idle timer has run for idle_timeout_seconds
IdleElapsed(since, t) ==
    /\ IsSome(since)
    /\ t - Unwrap(since) >= cfg.idle_timeout_seconds * 1000

C9_TimerSteps ==
    /\ (IsSome(idle_since') => Tracked' = {})
    /\ (idle_since' /= idle_since => idle_since' \in {None, Some(now')})
    /\ (~(Tracked' \subseteq Tracked) => idle_since' = None)
    /\ (exit_reason' = "idle" =>
            /\ cfg.idle_timeout_seconds > 0
            /\ IdleElapsed(idle_since', now')
            /\ Tracked' = {})

\* C9: idle timeout. The loop never exits on idleness when
\* idle_timeout_seconds = 0. When it exits on idleness, the timer was started
\* at least idle_timeout_seconds ago, at an instant the registry was empty,
\* and the registry has been empty in every state since: the timer runs only
\* while the registry is empty and admitting a player cancels it. Once the
\* timer has run that long, the loop eventually exits, unless a player is
\* admitted.
C9_IdleTimeout ==
    /\ [][C9_TimerSteps]_vars
    /\ (pc = "select" /\ cfg.idle_timeout_seconds > 0 /\ IdleElapsed(idle_since, now))
          ~> (LoopExited \/ Tracked /= {})

\* The loop was left on a timer that an admission had cancelled and the
\* player's disappearance started again.
C9_Witness ==
    /\ pc = "done"
    /\ exit_reason = "idle"
    /\ IsSome(idle_since)
    /\ Unwrap(idle_since) > 0
    /\ now - Unwrap(idle_since) >= cfg.idle_timeout_seconds * 1000
    /\ Tracked = {}

\* the entries finalize() added to the sink
Finalized == SubSeq(sink', Len(sink) + 1, Len(sink'))

C10_StopSteps ==
    /\ (/\ ~running
        /\ pc = "select"
        /\ (pc' /= pc \/ Len(queue') < Len(queue) \/ sleep_start' /= sleep_start))
       => (pc' = "finalize" /\ exit_reason' = "stop" /\ Len(queue') >= Len(queue) - 1)
    /\ (pc = "finalize" /\ pc' /= pc)
       => /\ pc' = "done"
          /\ tracked_players' = tracked_players
          /\ SubSeq(sink', 1, Len(sink)) = sink
          /\ Len(Finalized) = Cardinality({u \in Tracked : Qualifies(tracked_players[u], now)})
          /\ \A u \in Tracked :
                Qualifies(tracked_players[u], now) =>
                    \E i \in DOMAIN Finalized :
                        /\ Finalized[i].player = u
                        /\ Finalized[i].state = tracked_players[u]

\* C10: graceful stop. Once the stop flag is set while the loop waits, the
\* next thing the loop does, the handler of one event or the periodic wake,
\* ends it; finalize() then appends exactly one entry for every tracked
\* player whose state is playing, passes should_log and passes the
\* local_only gate, and run() returns. The loop and finalize() are
\* eventually left.
C10_GracefulStop ==
    /\ [][C10_StopSteps]_vars
    /\ (~running /\ pc = "select") ~> (pc = "done" /\ exit_reason = "stop")

\* run() has returned after a stop, and finalize() logged the episode a
\* player was still playing.
C10_Witness ==
    /\ pc = "done"
    /\ exit_reason = "stop"
    /\ ~running
    /\ \E u \in Tracked :
          /\ tracked_players[u].is_playing
          /\ \E i \in Records :
                /\ sink[i].player = u
                /\ sink[i].state = tracked_players[u]

\* C11: drain on stop. When the loop has been left because the stop flag was
\* set, the event channel is empty: every event enqueued before the exit was
\* handled before finalize() runs.
C11_DrainOnStop ==
    (LoopExited /\ exit_reason = "stop") => queue = <<>>

\* C12: monotone seek count. In every step, a player that stays tracked
\* either has a TrackChanged handled, after which seek_count, seek_forward_ms,
\* seek_backward_ms and last_position_us are 0 and intro_skipped is false,
\* or keeps a seek_count at least as large as before.
C12_MonotoneSeekCount ==
    [][\A u \in Tracked \cap Tracked' :
          IF Handles("TrackChanged", u)
          THEN /\ SeekCountersZero(tracked_players'[u])
               /\ tracked_players'[u].last_position_us = 0
          ELSE tracked_players'[u].seek_count >= tracked_players[u].seek_count]_vars

\* A track was left after two seeks, the second across the intro, and the
\* player is on the next track with nothing of them left.
C12_Witness ==
    /\ Len(sink) = 1
    /\ sink[1].player = U1
    /\ sink[1].state.seek_count = 2
    /\ sink[1].state.intro_skipped
    /\ sink[1].state.last_position_us = 20000000
    /\ U1 \in Tracked
    /\ tracked_players[U1].is_playing
    /\ tracked_players[U1].track /= sink[1].state.track
    /\ SeekCountersZero(tracked_players[U1])
    /\ tracked_players[U1].last_position_us = 0

\* the position recorded before the i-th seek of the probe: 0 at track start
PositionBefore(i) == IF i = 1 THEN 0 ELSE probe.positions[i - 1]

\* C13: intro_skipped is true iff some seek since the track started moved the
\* position from strictly below 5 s to strictly above 15 s; a seek that starts
\* at 5 s or more, or lands at 15 s or less, never sets it.
C13_IntroSkippedIff ==
    probe.state.intro_skipped =
        (\E i \in DOMAIN probe.positions :
            /\ PositionBefore(i) < 5000000
            /\ probe.positions[i] > 15000000)

\* A seek from 4.999999 s to 15.000001 s set the flag.
C13_Witness ==
    /\ probe.positions = <<4999999, 15000001>>
    /\ probe.state.intro_skipped

\* the probe is the S5 scenario: Seeked(1_000_000) then Seeked(20_000_000)
\* on a fresh episode
ProbeIsS5 == probe.positions = <<1000000, 20000000>>

\* C14 (amended): intro skip accounting. After Seeked(1_000_000) then
\* Seeked(20_000_000) on a fresh episode the state has seek_count = 2,
\* intro_skipped = true, seek_backward_ms = 0 and seek_forward_ms = 20000:
\* the 1000 ms of the first seek and the 19000 ms of the second.
C14_IntroSkipAccounting ==
    ProbeIsS5 =>
        /\ probe.state.seek_count = 2
        /\ probe.state.intro_skipped
        /\ probe.state.seek_forward_ms = 20000
        /\ probe.state.seek_backward_ms = 0
        /\ probe.state.last_position_us = 20000000

\* The two seeks of S5 were applied.
C14_Witness ==
    /\ ProbeIsS5
    /\ probe.state.seek_count = 2
    /\ probe.state.seek_forward_ms = 1000 + 19000

\* C14 as stated: after the two seeks of S5 seek_count = 2, intro_skipped =
\* true, seek_backward_ms = 0 and seek_forward_ms = 19000.
C14_AsStated ==
    ProbeIsS5 =>
        /\ probe.state.seek_count = 2
        /\ probe.state.intro_skipped
        /\ probe.state.seek_forward_ms = 19000
        /\ probe.state.seek_backward_ms = 0

\* names the filter is asked about: the two on the bus, one on neither list,
\* and one without the MPRIS prefix
FilterNames ==
    WellKnown \cup {MPRIS_PREFIX \o <<"vlc">>, <<"spotify">>, <<"org.example.", "spotify">>}

\* the name with the MPRIS prefix taken off, when it has it
Stripped(name) ==
    IF Len(name) >= 1 /\ Head(name) = "org.mpris.MediaPlayer2." THEN Tail(name) ELSE name

\* a listed entry occurs in the stripped name
OnList(list, name) ==
    \E p \in list : \E i \in 0..Len(Stripped(name)) :
        /\ i + Len(p) <= Len(Stripped(name))
        /\ SubSeq(Stripped(name), i + 1, i + Len(p)) = p

FilterAdmits(name) ==
    /\ ~OnList(cfg.blacklist, name)
    /\ (cfg.whitelist = {} \/ OnList(cfg.whitelist, name))

ProbePlayerListed ==
    /\ probe.player_name /= <<>>
    /\ \E p \in probe.local_players :
          \E i \in 1..Len(probe.player_name[1]) :
              /\ i + Len(p) - 1 <= Len(probe.player_name[1])
              /\ SubSeq(probe.player_name[1], i, i + Len(p) - 1) = p

\* the scheme the probe's URL starts with
ProbeScheme == probe.track.file_path[1][1]

\* C16: is_local_source. If the player name contains an entry of
\* local_only_players, an entry that is the full well-known name included,
\* the result is true whatever the URL; otherwise it is true iff there is a
\* URL and it starts with file:// or /, so false for http://, https://,
\* spotify:, deezer:, tidal:, any other scheme and a missing URL. The result
\* is a function of the track, the name and the list alone.
C16_IsLocalSource ==
    IsSome(probe.result) =>
        Unwrap(probe.result) =
            IF ProbePlayerListed
            THEN TRUE
            ELSE /\ probe.track.file_path /= <<>>
                 /\ ProbeScheme \in {"file://", "/"}

\* C17: the known-local-only rule on signals. When a TrackChanged event that
\* came from a PropertiesChanged signal is handled for a tracked player whose
\* well-known name contains an entry of local_only_players, the event's
\* is_local is true and so is the player's is_local after the step, whatever
\* the URL of the track.
C17_KnownLocalOnSignal ==
    [][\A u \in Tracked :
          (/\ u \in DOMAIN bus_name_map
           /\ OnList(cfg.local_only_players, bus_name_map[u])
           /\ Handles("TrackChanged", u))
          => /\ Head(queue).is_local
             /\ tracked_players'[u].is_local]_vars

\* the two records are of the same episode of the same player
SameEpisode(r1, r2) ==
    /\ r1.player = r2.player
    /\ r1.state.start_timestamp = r2.state.start_timestamp

\* the record whose insert failed in this step
Lost == lost'[Len(lost')]

C18_FailureStep ==
    lost' /= lost =>
        /\ SubSeq(lost', 1, Len(lost)) = lost
        /\ SubSeq(sink', 1, Len(sink)) = sink
        /\ pc' /= "failed"
        /\ pc = "select" => Len(lost') = Len(lost) + 1 /\ sink' = sink
        /\ pc = "select" =>
              \/ pc' = "select"
              \/ pc' = "finalize" /\ ~running'
              \/ pc' = "finalize" /\ cfg.idle_timeout_seconds > 0
                                  /\ IdleElapsed(idle_since', now')
        /\ pc = "finalize" => pc' = "done" /\ tracked_players' = tracked_players
        /\ Handles("Paused", Lost.player) \/ Handles("Stopped", Lost.player) =>
              tracked_players' =
                  [tracked_players EXCEPT ![Lost.player] = stop_playing(Lost.state)]
        /\ Handles("TrackChanged", Lost.player) =>
              /\ tracked_players'[Lost.player].track = Head(queue).track
              /\ tracked_players'[Lost.player].is_playing
              /\ tracked_players'[Lost.player].start_timestamp /= Lost.state.start_timestamp
              /\ SeekCountersZero(tracked_players'[Lost.player])
        /\ (pc = "select" /\ Head(queue).type = "PlayerDisappeared") =>
              /\ Lost.player \notin Tracked'
              /\ Lost.player \notin DOMAIN bus_name_map'

\* C18: a sink failure is absorbed. A step in which db.log_play returns an
\* error stores nothing, does not end run() with an error and leaves the loop
\* only if the stop flag or the idle timer says so; it leaves the registry as
\* the same step does after a successful insert (the player paused, on the
\* new track with a new episode, or removed); and no entry of the sink is ever
\* of an episode whose insert failed, nor is a failed insert attempted twice.
C18_SinkFailureAbsorbed ==
    /\ [][C18_FailureStep]_vars
    /\ [](\A i \in DOMAIN lost :
            /\ \A j \in Records : ~SameEpisode(lost[i], sink[j])
            /\ \A k \in DOMAIN lost : SameEpisode(lost[i], lost[k]) => i = k)

\* The insert of one episode failed, the loop went on, and a later episode
\* of the same player was stored.
C18_Witness ==
    /\ Len(lost) = 1
    /\ Len(sink) = 1
    /\ sink[1].player = lost[1].player
    /\ sink[1].state.start_timestamp[1] > lost[1].state.start_timestamp[1]
    /\ pc = "select"

\* C19: Seeked with track_seeks off. A step that handles Seeked for a tracked
\* player when track_seeks is false sets last_position_us to the position of
\* the event and leaves seek_count, seek_forward_ms, seek_backward_ms and
\* intro_skipped as they were.
C19_SeekedWithoutTracking ==
    [][\A u \in Tracked :
          (~cfg.track_seeks /\ Handles("Seeked", u))
          => /\ tracked_players'[u].last_position_us = Head(queue).position_us
             /\ tracked_players'[u].seek_count = tracked_players[u].seek_count
             /\ tracked_players'[u].seek_forward_ms = tracked_players[u].seek_forward_ms
             /\ tracked_players'[u].seek_backward_ms = tracked_players[u].seek_backward_ms
             /\ tracked_players'[u].intro_skipped = tracked_players[u].intro_skipped]_vars

\* C20: a failed D-Bus call while admitting a player never ends the process.
\* run() does not return an error because a player could not be admitted:
\* after discovery it is in the event loop or, told to stop or idle, in
\* finalize() and its normal return.
C20_AdmissionFailureAbsorbed ==
    pc \in {"discover", "select", "finalize", "done"}

\* C21: once the D-Bus signal stream has terminated (the reader task has
\* ended), the main loop drains what is left in the channel and exits, with no
\* need of the stop flag or of the idle timeout: from every state with the
\* stream closed the run leads to the loop having exited.
C21_StreamEndExits == (~stream_open) ~> LoopExited

\* C22: an invalid configuration (min_play_percent outside [0,1],
\* min_play_seconds > 3600) is detected before any D-Bus connection or
\* subscription is made, at every entry point that starts the monitor: with
\* such a configuration the program never holds a connection and never
\* monitors, and when it has exited it has exited with an error.
C22_InvalidConfigRejected ==
    (pc = "startup" /\ validate(probe.config) = "Err")
        => /\ ~probe.connected
           /\ ~probe.monitoring
           /\ (probe.stage = "exited" => probe.exit = "error")

\* C23: pause and resume without a TrackChanged give two independent
\* episodes. A step that handles Paused or Stopped for a playing player logs
\* its episode exactly when the time played since start_time qualifies; a step
\* that handles Playing for a player that is not playing restarts the clock
\* (start_time is the instant of the event, start_timestamp is a new one, the
\* played time is back at zero) and leaves the track and the counters alone,
\* so the time played before the pause is not part of the second episode.
C23_PauseResumeEpisodes ==
    [][\A u \in Tracked :
          /\ ((Handles("Paused", u) \/ Handles("Stopped", u))
                  /\ tracked_players[u].is_playing)
             => /\ (Len(sink') = Len(sink) + 1) = Qualifies(tracked_players[u], now)
                /\ Len(sink') > Len(sink) =>
                      /\ Appended.player = u
                      /\ Appended.state = tracked_players[u]
                /\ ~tracked_players'[u].is_playing
          /\ (Handles("Playing", u) /\ ~tracked_players[u].is_playing)
             => /\ tracked_players'[u].is_playing
                /\ tracked_players'[u].start_time = Some(now)
                /\ played_ms(tracked_players'[u], now') = 0
                /\ tracked_players'[u].start_timestamp /= tracked_players[u].start_timestamp
                /\ \A i \in Records :
                      sink[i].player = u =>
                          sink[i].state.start_timestamp /= tracked_players'[u].start_timestamp
                /\ tracked_players'[u].track = tracked_players[u].track
                /\ sink' = sink]_vars

\* between the two episodes: the player was admitted playing at 0 and paused
\* a second later, the pause logged that episode (the entry carries the
\* start_timestamp the paused state still has), and the Playing event that
\* resumes it is the next to be handled
C23_Witness ==
    /\ pc = "select"
    /\ U1 \in Tracked
    /\ ~tracked_players[U1].is_playing
    /\ tracked_players[U1].start_time = Some(0)
    /\ Len(sink) = 1
    /\ sink[1].player = U1
    /\ sink[1].state.start_timestamp = tracked_players[U1].start_timestamp
    /\ sink[1].state.track = tracked_players[U1].track
    /\ sink[1].played_ms = 1000
    /\ now = 1000
    /\ queue /= <<>>
    /\ Head(queue).type = "Playing"
    /\ Head(queue).player = U1

\* the arm is between its qualification test and its update (for
\* remove_player, whose update comes first, between the removal and the test)
BetweenDecisionAndMutation ==
    \/ pc = "decided" /\ Head(queue).type /= "PlayerDisappeared"
    \/ pc = "removed"

\* C24: for TrackChanged, Paused/Stopped and PlayerDisappeared the
\* qualification test on the prior state and the update of the player's state
\* happen within one acquisition of the registry write lock: between the two
\* the arm holds the lock, no other task takes it, and the state the update
\* is applied to is the state the test looked at.
C24_DecisionAndMutationAtomic ==
    [][/\ BetweenDecisionAndMutation => probe.lock = "handler"
       /\ (BetweenDecisionAndMutation /\ pc = "decided" /\ U1 \in Tracked)
             => probe.prior = Some(tracked_players[U1])
       /\ ~(pc \in {"locked", "decided", "removed"} /\ probe'.others /= probe.others)
       /\ (pc = "locked" /\ pc' /= pc) => probe.lock = "handler"]_vars
    /\ [](BetweenDecisionAndMutation => probe.lock = "handler")

\* another task has had the lock and started the player again while the event
\* waited; the arm then tested that state and is about to update it
C24_Witness ==
    /\ pc = "decided"
    /\ Head(queue).type \in {"TrackChanged", "Paused"}
    /\ probe.others = 1
    /\ probe.lock = "handler"
    /\ IsSome(probe.state_to_log)
    /\ U1 \in Tracked
    /\ tracked_players[U1].start_time = Some(1000)
    /\ now = 2000

\* C25: log_play (the context capture and the sink append) is never awaited
\* while the registry lock is held: on TrackChanged, Paused/Stopped and
\* PlayerDisappeared the arm has released the lock when it hands the clone to
\* log_play.
C25_LogAfterRelease ==
    [][(sink' /= sink) => probe.lock /= "handler"]_vars

\* C26: a TrackChanged event whose title equals the title of the current
\* track is treated as the same track: the step that handles it appends
\* nothing to the sink and leaves the seek counters, start_time and
\* start_timestamp of the player as they were.
C26_SameTitleSameTrack ==
    [][\A u \in Tracked :
          (/\ Handles("TrackChanged", u)
           /\ Head(queue).track.title = tracked_players[u].track.title)
          => /\ sink' = sink
             /\ tracked_players'[u].seek_count = tracked_players[u].seek_count
             /\ tracked_players'[u].seek_forward_ms = tracked_players[u].seek_forward_ms
             /\ tracked_players'[u].seek_backward_ms = tracked_players[u].seek_backward_ms
             /\ tracked_players'[u].intro_skipped = tracked_players[u].intro_skipped
             /\ tracked_players'[u].start_time = tracked_players[u].start_time
             /\ tracked_players'[u].start_timestamp = tracked_players[u].start_timestamp]_vars

\* C27: the played_ms of a record is the time from the episode's start_time
\* to the transition that ended the episode. A step that handles
\* TrackChanged, Paused, Stopped or PlayerDisappeared and appends an entry
\* appends one whose played_ms is the time played at the instant the event
\* was handled; the time the step then spends in log_play is not in it.
C27_PlayedMsAtTransition ==
    [][(/\ pc = "select"
        /\ queue /= <<>>
        /\ queue' = Tail(queue)
        /\ Head(queue).type \in {"TrackChanged", "Paused", "Stopped", "PlayerDisappeared"}
        /\ Len(sink') = Len(sink) + 1)
       => Appended.played_ms = played_ms(Appended.state, now)]_vars

\* C28: a Playing event for a player that is already playing leaves its state
\* unchanged: the step that handles it changes nothing in the registry (so
\* start_time and start_timestamp are not reset) and appends nothing to the
\* sink.
C28_DuplicatePlaying ==
    [][\A u \in Tracked :
          (Handles("Playing", u) /\ tracked_players[u].is_playing)
          => /\ tracked_players' = tracked_players
             /\ sink' = sink
             /\ wall' = wall]_vars

\* a player that has been playing for a second has a Playing event next in
\* the channel
C28_Witness ==
    /\ pc = "select"
    /\ queue /= <<>>
    /\ Head(queue).type = "Playing"
    /\ Head(queue).player = U1
    /\ U1 \in Tracked
    /\ tracked_players[U1].is_playing
    /\ tracked_players[U1].start_time = Some(0)
    /\ now = 1000

\* C29: after a Paused or Stopped event is handled for a tracked player, that
\* player's start_time is cleared (absent) until the next Playing event.
C29_StartTimeCleared ==
    [][\A u \in Tracked :
          (Handles("Paused", u) \/ Handles("Stopped", u))
          => tracked_players'[u].start_time = None]_vars

\* C30: in every reachable state every tracked player that is_playing has a
\* start_time; a player whose clock never started (no Playing event since its
\* admission, and not admitted playing: start_time is set only by those and
\* is never taken away) has played time 0 and does not qualify, whatever the
\* thresholds.
C30_PlayingHasStartTime ==
    /\ [](\A u \in Tracked :
            LET state == tracked_players[u]
            IN  /\ state.is_playing => IsSome(state.start_time)
                /\ ~IsSome(state.start_time)
                   => /\ ~state.is_playing
                      /\ played_ms(state, now) = 0
                      /\ ~should_log(state, now, cfg.min_play_seconds, cfg.min_play_percent)
                      /\ ~Qualifies(state, now)
                      /\ ~QualifiesOnRemoval(state, now))
    /\ [][\A u \in Tracked \cap DOMAIN tracked_players' :
            /\ (~IsSome(tracked_players[u].start_time)
                    /\ IsSome(tracked_players'[u].start_time))
               => Handles("Playing", u)
            /\ IsSome(tracked_players[u].start_time)
               => IsSome(tracked_players'[u].start_time)]_vars

\* a titled player admitted while paused has seen two seconds and all the
\* signals of the run go by without a Playing event, under thresholds of zero
C30_Witness ==
    /\ cfg.min_play_seconds = 0
    /\ cfg.min_play_percent = 0
    /\ U1 \in Tracked
    /\ ~IsSome(tracked_players[U1].start_time)
    /\ IsSome(tracked_players[U1].track.title)
    /\ now = 2000
    /\ nsignals = MaxSignals
    /\ queue = <<>>
    /\ sink = <<>>

\* C31: on_seeked(p) applied twice in a row with the same position p raises
\* seek_count by exactly 2 (every application counts one, so seek_count is the
\* number of applications), and the second application, to the position
\* already recorded, adds nothing to seek_forward_ms or seek_backward_ms and
\* leaves last_position_us = p.
C31_RepeatedSeek ==
    /\ [](probe.state.seek_count = Len(probe.positions))
    /\ [][\A p \in SeekPositions :
            (/\ probe.state.last_position_us = p
             /\ probe'.positions = Append(probe.positions, p))
            => /\ probe'.state.seek_count = probe.state.seek_count + 1
               /\ probe'.state.seek_forward_ms = probe.state.seek_forward_ms
               /\ probe'.state.seek_backward_ms = probe.state.seek_backward_ms
               /\ probe'.state.last_position_us = p]_vars

\* Seeked(1_000_000) twice on a fresh episode: two seeks, the 1000 ms of the
\* first and nothing for the second
C31_Witness ==
    /\ probe.positions = <<1000000, 1000000>>
    /\ probe.state.seek_count = 2
    /\ probe.state.seek_forward_ms = 1000
    /\ probe.state.seek_backward_ms = 0
    /\ probe.state.last_position_us = 1000000

\* C32: every PropertiesChanged message on the Player interface whose changed
\* map has a decodable Metadata entry produces a TrackChanged event, whatever
\* PlaybackStatus value, an unrecognized one included, the message carries.
C32_MetadataGivesTrackChanged ==
    (pc = "properties_changed" /\ probe.handled /\ IsSome(probe.metadata))
        => \E i \in DOMAIN probe.events :
              /\ probe.events[i].type = "TrackChanged"
              /\ probe.events[i].player = probe.sender
              /\ probe.events[i].track = parse_metadata(Unwrap(probe.metadata))

\* C33: after each event has been fully handled the key set of
\* tracked_players equals the key set of bus_name_map: a player is in both
\* maps or in neither.
C33_ParallelMaps == DOMAIN tracked_players = DOMAIN bus_name_map

\* one player was admitted, played and was removed with its episode logged,
\* while the other is in both maps
C33_Witness ==
    /\ Tracked = {U2}
    /\ DOMAIN bus_name_map = {U2}
    /\ bus_name_map[U2] = W2
    /\ sink /= <<>>
    /\ sink[1].player = U1
    /\ pc = "select"
    /\ queue = <<>>

\* C34: whenever the idle timer is armed (idle_since is set) between two
\* handled events the registry is empty. Every step that admits a player
\* leaves idle_since cleared, and idle_since is set only by discovery that
\* found no player or by the removal that leaves the registry empty.
C34_IdleTimerMeansEmpty ==
    /\ [](IsSome(idle_since) => Tracked = {})
    /\ [][/\ (DOMAIN tracked_players' \ Tracked /= {}) => idle_since' = None
          /\ (IsSome(idle_since') /\ idle_since' /= idle_since)
             => /\ DOMAIN tracked_players' = {}
                /\ \/ pc = "discover"
                   \/ /\ Tracked /= {}
                      /\ \E w \in WellKnown : Handles("PlayerDisappeared", w)]_vars

\* the only player was removed a second into the run, with its episode
\* logged, and the removal armed the timer
C34_Witness ==
    /\ idle_since = Some(1000)
    /\ Tracked = {}
    /\ sink /= <<>>
    /\ pc = "select"
    /\ cfg.idle_timeout_seconds = 0

\* the step handles an event of one of these types
HandlesOneOf(types) ==
    /\ pc = "select"
    /\ queue /= <<>>
    /\ Head(queue).type \in types
    /\ queue' = Tail(queue)

\* the well-known names the name map knows
KnownNames == {bus_name_map[k] : k \in DOMAIN bus_name_map}

\* C35: a TrackChanged, Playing, Paused, Stopped or Seeked event whose player
\* key is not in the registry, and a PlayerDisappeared for a name that is not
\* in the name map, change no player state, do not touch the idle timer and
\* append nothing to the sink.
C35_UnknownPlayerIgnored ==
    [][(\/ /\ HandlesOneOf({"TrackChanged", "Playing", "Paused", "Stopped", "Seeked"})
           /\ Head(queue).player \notin Tracked
        \/ /\ HandlesOneOf({"PlayerDisappeared"})
           /\ Head(queue).player \notin KnownNames)
       => /\ tracked_players' = tracked_players
          /\ bus_name_map' = bus_name_map
          /\ idle_since' = idle_since
          /\ sink' = sink]_vars

\* a Playing event of a connection that is not in the registry is next in the
\* channel, while another player is tracked and playing
C35_Witness ==
    /\ pc = "select"
    /\ queue /= <<>>
    /\ Head(queue).type \in {"Playing", "Paused", "Stopped"}
    /\ Head(queue).player \notin Tracked
    /\ Tracked /= {}
    /\ \E u \in Tracked : tracked_players[u].is_playing

\* C36: admission is idempotent. add_player for a well-known name whose unique
\* connection name is already in the registry leaves every TrackState (a
\* running episode's start_time and seek counters included) and the name map
\* as they were.
C36_AdmissionIdempotent ==
    (/\ pc = "add_player"
     /\ probe.calls > 0
     /\ IsSome(probe.resolved)
     /\ Unwrap(probe.resolved) \in DOMAIN probe.before.players)
    => /\ tracked_players = probe.before.players
       /\ bus_name_map = probe.before.names

\* U1, playing A since 0 with one seek, appears again a second later under
\* its other name, now answering B and Playing: state and name map are kept
C36_Witness ==
    /\ pc = "add_player"
    /\ probe.calls = 1
    /\ probe.name = W2
    /\ probe.resolved = Some(U1)
    /\ probe.metadata = Some(MetaB)
    /\ probe.status = Some("Playing")
    /\ now = 1000
    /\ tracked_players[U1].track = parse_metadata(MetaA)
    /\ tracked_players[U1].start_time = Some(0)
    /\ tracked_players[U1].seek_count = 1
    /\ bus_name_map[U1] = W1

\* the registry key an event is about
EventKey(ev) ==
    IF ev.type = "PlayerDisappeared"
    THEN CHOOSE k \in DOMAIN bus_name_map : bus_name_map[k] = ev.player
    ELSE ev.player

\* C37: events are handled one at a time in the order they were enqueued, and
\* a handler, its sink append included, completes before the next event is
\* dequeued. The channel changes only by events entering at its end or by its
\* head being taken; while the loop runs a record enters the sink only in the
\* step that takes the head event, one record at most, at the end of the
\* sink, for the player of that event. Hence records are in the sink in the
\* order of the events that qualified them, across players too.
C37_OneAtATimeInOrder ==
    [][/\ queue' /= queue
          => \/ queue /= <<>> /\ queue' = Tail(queue)
             \/ /\ Len(queue') > Len(queue)
                /\ SubSeq(queue', 1, Len(queue)) = queue
       /\ (sink' /= sink /\ pc /= "finalize")
          => /\ pc = "select"
             /\ queue /= <<>>
             /\ queue' = Tail(queue)
             /\ AppendedOne
             /\ Appended.player = EventKey(Head(queue))]_vars

\* two players were paused one after the other and both episodes were
\* logged by the pauses, in that order
C37_Witness ==
    /\ pc = "select"
    /\ queue = <<>>
    /\ Len(sink) = 2
    /\ sink[1].player = U1
    /\ sink[2].player = U2
    /\ Tracked = {U1, U2}
    /\ ~tracked_players[U1].is_playing
    /\ ~tracked_players[U2].is_playing

\* the seek fields of a state
SeekFields(state) ==
    <<state.seek_count, state.seek_forward_ms, state.seek_backward_ms,
      state.intro_skipped, state.last_position_us>>

\* C38: Playing, Paused and Stopped events leave seek_count, seek_forward_ms,
\* seek_backward_ms, intro_skipped and last_position_us unchanged, and for a
\* player that stays in the registry the counters go back (to zero) only in a
\* step that handles TrackChanged; so a state resumed after a pause still
\* carries the seeks made before it, and they are in the record of the second
\* episode.
C38_SeeksSurvivePause ==
    [][\A u \in Tracked \cap DOMAIN tracked_players' :
          /\ (Handles("Playing", u) \/ Handles("Paused", u) \/ Handles("Stopped", u))
             => SeekFields(tracked_players'[u]) = SeekFields(tracked_players[u])
          /\ (tracked_players'[u].seek_count < tracked_players[u].seek_count
                \/ (tracked_players[u].intro_skipped /\ ~tracked_players'[u].intro_skipped))
             => /\ Handles("TrackChanged", u)
                /\ SeekCountersZero(tracked_players'[u])
          /\ (\/ Handles("TrackChanged", u) \/ Handles("Paused", u)
              \/ Handles("Stopped", u))
             /\ Len(sink') = Len(sink) + 1
             => SeekFields(Appended.state) = SeekFields(tracked_players[u])]_vars

\* a player sought once while playing and was paused: the pause logged the
\* episode with its seek, the paused state still has the seek, and the
\* Playing event that resumes it is next in the channel
C38_Witness ==
    /\ pc = "select"
    /\ U1 \in Tracked
    /\ ~tracked_players[U1].is_playing
    /\ tracked_players[U1].seek_count = 1
    /\ tracked_players[U1].seek_forward_ms = 1000
    /\ Len(sink) = 1
    /\ sink[1].player = U1
    /\ sink[1].state.start_timestamp = tracked_players[U1].start_timestamp
    /\ sink[1].state.seek_count = 1
    /\ queue /= <<>>
    /\ Head(queue).type = "Playing"
    /\ Head(queue).player = U1

\* C39: when one PropertiesChanged message carries a recognized
\* PlaybackStatus and Metadata, the status event enters the channel before the
\* TrackChanged event of the same sender. So with Paused (or Stopped) and new
\* metadata the step that handles the status event logs the outgoing track at
\* most once and leaves the player not playing, and the step that handles the
\* TrackChanged behind it, like any TrackChanged for a player that is not
\* playing, logs nothing.
C39_StatusBeforeTrackChanged ==
    [][/\ Len(queue') = Len(queue) + 2
          => /\ queue'[Len(queue) + 1].type \in {"Playing", "Paused", "Stopped"}
             /\ queue'[Len(queue) + 2].type = "TrackChanged"
             /\ queue'[Len(queue) + 2].player = queue'[Len(queue) + 1].player
       /\ \A u \in Tracked :
            /\ (/\ Handles("Paused", u) \/ Handles("Stopped", u)
                /\ Len(queue) >= 2
                /\ queue[2].type = "TrackChanged"
                /\ queue[2].player = u)
               => /\ Len(sink') <= Len(sink) + 1
                  /\ Len(sink') = Len(sink) + 1 => Appended.state = tracked_players[u]
                  /\ ~tracked_players'[u].is_playing
            /\ (Handles("TrackChanged", u) /\ ~tracked_players[u].is_playing)
               => sink' = sink]_vars

\* one message, Paused with the metadata of B, to a player playing A: A was
\* logged once and the player is on B, not playing
C39_Witness ==
    /\ nsignals = 1
    /\ pc = "select"
    /\ queue = <<>>
    /\ Len(sink) = 1
    /\ sink[1].player = U1
    /\ sink[1].state.track = parse_metadata(MetaA)
    /\ U1 \in Tracked
    /\ tracked_players[U1].track = parse_metadata(MetaB)
    /\ ~tracked_players[U1].is_playing

\* C40: on TrackChanged with local_only set, whether the outgoing episode is
\* logged depends on the is_local of the outgoing state, as it was before the
\* event, and never on the is_local the event carries: the step logs exactly
\* when the prior state is playing, passes should_log and is local; the
\* incoming flag is stored in the state, for the episodes that end later.
C40_GateOnOutgoingState ==
    [][\A u \in Tracked :
          (Handles("TrackChanged", u) /\ cfg.local_only)
          => LET state == tracked_players[u]
             IN  /\ (Len(sink') = Len(sink) + 1)
                      = (/\ state.is_playing
                         /\ should_log(state, now, cfg.min_play_seconds,
                                       cfg.min_play_percent)
                         /\ state.is_local)
                 /\ Len(sink') \in {Len(sink), Len(sink) + 1}
                 /\ Len(sink') = Len(sink) + 1 => Appended.state = state
                 /\ tracked_players'[u].is_local = Head(queue).is_local]_vars

\* local_only is set; a local track was playing when a non-local one came
\* in: the local episode is in the sink and the state carries the incoming
\* flag
C40_Witness ==
    /\ cfg.local_only
    /\ pc = "select"
    /\ Len(sink) = 1
    /\ sink[1].player = U1
    /\ sink[1].state.is_local
    /\ sink[1].state.track = parse_metadata(MetaA)
    /\ U1 \in Tracked
    /\ tracked_players[U1].track = parse_metadata(MetaB)
    /\ ~tracked_players[U1].is_local
    /\ tracked_players[U1].is_playing
    /\ nsignals = 1

=============================================================================
